---- MODULE Spec2Model ----
(***************************************************************************)
(* A model of the nb-sim (reuron) biophysics engine.                       *)
(*                                                                         *)
(* Numbers.  The program computes in f32.  The model computes in fixed     *)
(* point over the integers: voltages in whole millivolts, gate magnitudes  *)
(* in units of 1/MagScale, times in whole ticks of the gate clock.  A      *)
(* quotient is rounded toward zero once, where the program stores the      *)
(* result.  exp is taken to the base 2 (a rescaling of every slope and     *)
(* sigma by ln 2), so that the logistic curve and the bell-shaped time     *)
(* constant keep their shape.  A magnitude that leaves the finite range    *)
(* becomes non-finite and stays so, as an f32 that reached inf/NaN does.   *)
(*                                                                         *)
(* Three parts.  SpecGate steps one gate (GateState::step).  Spec is the   *)
(* Bevy world: scenes are loaded and spawned, segments are clicked, and    *)
(* step_biophysics runs in its four phases, one action per phase, no other *)
(* system running between the phases of a tick.  SpecTick is the same      *)
(* world from the moment the first scene has been spawned, with ticks and  *)
(* clicks only.  Capacitances and conductances are small integers chosen   *)
(* so that conductance * dt / capacitance is at most 1, the regime the     *)
(* program runs in (dt = 5e-7 s).                                          *)
(***************************************************************************)
EXTENDS Integers, Sequences, FiniteSets, TLC

VARIABLES
    gate,       \* GateState under test: magnitude, finite, parameters
    gateV,      \* the membrane potential the gate is stepped with
    gateDt,     \* the Interval the gate is stepped with
    gateHistory \* "built": at the voltage it was built at and not yet stepped;
                \* "held": stepped, at the build voltage only; else "moved"

gateVars == <<gate, gateV, gateDt, gateHistory>>

\* The plain Segment of the crate under test: the segment, the Interval it is
\* stepped with, the segment as it was constructed, and the number of times
\* the caller has set its membrane potential
VARIABLES cell, cellDt, cellBuilt, cellResets

cellVars == <<cell, cellDt, cellBuilt, cellResets>>

\* The Bevy world: the position of step_biophysics in its phases, the scene
\* source, the fetches in flight, the next fresh entity, the segment entities
\* with their components, the Junction, Synapse and Stimulation entities in
\* query order, the Timestamp and SimulationStepSeconds resources
VARIABLES pc, source, fetches, next_entity, segments, junctions, synapses,
          stimulations, timestamp, simulation_step

\* History of the run: completed ticks, scene loads, the world at the start of
\* the running tick and of its coupling phase, whether a synapse was skipped,
\* and where the program failed
VARIABLES ticks, loads, tick_start, coupling_start, skipped, failure

worldVars == <<pc, source, fetches, next_entity, segments, junctions, synapses,
               stimulations, timestamp, simulation_step>>

historyVars == <<ticks, loads, tick_start, coupling_start, skipped, failure>>

\* The toy-runner: the owner of the Mutex around the shared State, the State,
\* the position of the run task and its local copy of the interval, the
\* position of the watch task and the time it printed last, the position of
\* the command handler and the command it has parsed; and as history the
\* State at the lock of the running batch with the intervals its steps passed
\* to the neuron, and whether a display or a command fell inside a batch
VARIABLES mutex, state, runPc, run_interval, watchPc, displayed, handlerPc,
          command, batch, interleaved

runnerVars == <<mutex, state, runPc, run_interval, watchPc, displayed, handlerPc,
                command, batch, interleaved>>

\* The units exercised on their own.  The toy-runner's RingBuffer, the values
\* written to it so far and whether a write has panicked
VARIABLES ring_buffer, writes, ring_panicked

ringVars == <<ring_buffer, writes, ring_panicked>>

\* The segments of a neuron given to simplify, the segments as they were
\* given, and how the call ended
VARIABLES swc, swc_loaded, swc_outcome

swcVars == <<swc, swc_loaded, swc_outcome>>

\* The Stimulator resource that the stimulation panel edits and that
\* add_stimulation copies onto the clicked segment
VARIABLES new_stimulators

widgetVars == <<new_stimulators>>

\* The Oscilloscope resource, the frames it has sampled, and how the last
\* call of Oscilloscope::plot ended
VARIABLES oscilloscope, frames, plot_outcome

oscilloscopeVars == <<oscilloscope, frames, plot_outcome>>

unitVars == <<ringVars, swcVars, widgetVars, oscilloscopeVars>>

vars == <<gateVars, cellVars, worldVars, historyVars, runnerVars, unitVars>>

----------------------------------------------------------------------------
(* Fixed-point arithmetic *)

\* the fixed-point unit of a gate magnitude: MagScale stands for 1.0
MagScale == 16 * 16

\* the tolerance of the convergence test (constants.rs EPSILON), in magnitude
\* units.  It is no smaller than the longest time constant of GatingParameters:
\* the stored magnitude stops moving once |v_inf - magnitude| * interval < tau,
\* which is this model's form of the f32 rounding the tolerance absorbs.
Epsilon == 4

\* the finite range of a stored magnitude; beyond it the f32 is inf/NaN
MagnitudeLimit == 4096

\* the longest Interval tried, in gate clock ticks
MaxInterval == 3

Abs(x) == IF x >= 0 THEN x ELSE -x

\* a / b rounded toward zero, b # 0
Quot(a, b) ==
    LET q == Abs(a) \div Abs(b)
    IN  IF (a >= 0) = (b > 0) THEN q ELSE -q

\* 2^n for n >= 0, saturating: beyond 2^20 the quotient it divides is 0 anyway
Pow2(n) == IF n > 20 THEN 2 ^ 20 ELSE 2 ^ n

\* 1 / (1 + exp(x)) in magnitude units
Logistic(x) ==
    IF x >= 0 THEN Quot(MagScale, 1 + Pow2(x))
    ELSE MagScale - Quot(MagScale, 1 + Pow2(-x))

----------------------------------------------------------------------------
(* neuron/channel.rs: Magnitude, TimeConstant, GateState *)

\* Magnitude::steady_state
steady_state(m, v) == Logistic(Quot(m.v_at_half_max - v, m.slope))

\* TimeConstant::tau, an Option: << >> for None (Instantaneous), else <<t>>
\* with t a time in gate clock ticks
tau(tc, v) ==
    CASE tc.law = "Instantaneous" -> << >>
      [] tc.law = "Sigmoid" ->
            LET numerator == (tc.v_at_max_tau - v) * (tc.v_at_max_tau - v)
                denominator == tc.sigma * tc.sigma
            IN  << tc.c_base + Quot(tc.c_amp, Pow2(Quot(numerator, denominator))) >>
      [] tc.law = "LinearExp" ->
            LET e == Quot(tc.v_offset - v, tc.inner_div)
            IN  << IF e >= 0 THEN tc.coef * Pow2(e) ELSE Quot(tc.coef, Pow2(-e)) >>

\* a stored f32: finite inside the range, inf/NaN outside, NaN once NaN
Stored(g, m) ==
    IF g.finite /\ Abs(m) <= MagnitudeLimit
    THEN [g EXCEPT !.magnitude = m]
    ELSE [g EXCEPT !.magnitude = 0, !.finite = FALSE]

\* GateState::step that moves a gate without a time constant toward the
\* steady state with the time constant of one clock tick
GateState_step_lagging_instantaneous(g, membrane_potential, interval) ==
    LET v_inf == steady_state(g.parameters.steady_state_magnitude, membrane_potential)
        maybe_tau == tau(g.parameters.time_constant, membrane_potential)
    IN  IF maybe_tau = << >>
        THEN Stored(g, g.magnitude + (v_inf - g.magnitude) * interval)
        ELSE Stored(g, g.magnitude
                       + Quot((v_inf - g.magnitude) * interval, maybe_tau[1]))

\* GateState::step: without a time constant the steady state is assigned,
\* whatever the magnitude was; with one the magnitude moves toward it
GateState_step(g, membrane_potential, interval) ==
    LET v_inf == steady_state(g.parameters.steady_state_magnitude, membrane_potential)
        maybe_tau == tau(g.parameters.time_constant, membrane_potential)
    IN  IF maybe_tau = << >>
        THEN [g EXCEPT !.magnitude = v_inf, !.finite = TRUE]
        ELSE Stored(g, g.magnitude
                       + Quot((v_inf - g.magnitude) * interval, maybe_tau[1]))

\* build_gate with every gate closed at construction
build_gate_closed(parameters, initial_membrane_potential) ==
    [ magnitude  |-> 0,
      finite     |-> TRUE,
      parameters |-> parameters ]

\* ChannelBuilder::build, for one gate: the steady state at the initial voltage
build_gate(parameters, initial_membrane_potential) ==
    [ magnitude  |-> steady_state(parameters.steady_state_magnitude,
                                  initial_membrane_potential),
      finite     |-> TRUE,
      parameters |-> parameters ]

----------------------------------------------------------------------------
(* neuron/solution.rs, neuron/channel.rs: solutions and reversal potentials *)

\* concentrations in units of 0.1 micromolar
INTERSTICIAL_FLUID ==
    [ na_concentration |-> 1450000, k_concentration |-> 50000,
      cl_concentration |-> 1100000, ca_concentration |-> 25000 ]

EXAMPLE_CYTOPLASM ==
    [ na_concentration |-> 50000, k_concentration |-> 1400000,
      cl_concentration |-> 40000, ca_concentration |-> 1 ]

\* constants.rs BODY_TEMPERATURE, kelvin
BODY_TEMPERATURE == 310

\* floor of the base-2 logarithm of c >= 1
RECURSIVE FloorLog2(_)
FloorLog2(c) == IF c <= 1 THEN 0 ELSE 1 + FloorLog2(c \div 2)

\* GAS_CONSTANT * INVERSE_FARADAY * temperature * 1000 * ln 2: the millivolts
\* per doubling of the concentration ratio (18 mV at 310 K)
ThermalMilliVolts(temperature) == Quot(6 * temperature, 100)

\* reversal_potential, mV
reversal_potential(internal_concentration, external_concentration, temperature, valence) ==
    Quot(ThermalMilliVolts(temperature)
           * (FloorLog2(external_concentration) - FloorLog2(internal_concentration)),
         valence)

k_reversal(internal_solution, external_solution, temperature) ==
    reversal_potential(internal_solution.k_concentration,
                       external_solution.k_concentration, temperature, 1)

na_reversal(internal_solution, external_solution, temperature) ==
    reversal_potential(internal_solution.na_concentration,
                       external_solution.na_concentration, temperature, 1)

ca_reversal(internal_solution, external_solution, temperature) ==
    reversal_potential(internal_solution.ca_concentration,
                       external_solution.ca_concentration, temperature, 2)

cl_reversal(internal_solution, external_solution, temperature) ==
    reversal_potential(internal_solution.cl_concentration,
                       external_solution.cl_concentration, temperature, -1)

----------------------------------------------------------------------------
(* neuron/channel.rs, neuron/membrane.rs: channels and membranes *)

\* the fixed-point unit of an ion selectivity: SelScale stands for 1.0
SelScale == 20

\* an absent gate (Option::None)
NoGate == << >>

K  == [na |-> 0, k |-> SelScale, ca |-> 0, cl |-> 0]
CL == [na |-> 0, k |-> 0, ca |-> 0, cl |-> SelScale]

\* magnitude.powi(gates), in magnitude units
RECURSIVE powi(_, _)
powi(magnitude, gates) ==
    IF gates = 0 THEN MagScale
    ELSE Quot(magnitude * powi(magnitude, gates - 1), MagScale)

\* Channel::conductance_coefficient in which an absent gate counts as closed
conductance_coefficient_absent_closed(channel) ==
    LET activation_coefficient ==
            IF channel.activation = NoGate THEN 0
            ELSE powi(channel.activation[1].magnitude,
                      channel.activation[1].parameters.gates)
        inactivation_coefficient ==
            IF channel.inactivation = NoGate THEN 0
            ELSE powi(channel.inactivation[1].magnitude,
                      channel.inactivation[1].parameters.gates)
    IN  Quot(activation_coefficient * inactivation_coefficient, MagScale)

\* Channel::conductance_coefficient, in magnitude units; a gate is << >> or <<g>>
conductance_coefficient(channel) ==
    LET activation_coefficient ==
            IF channel.activation = NoGate THEN MagScale
            ELSE powi(channel.activation[1].magnitude,
                      channel.activation[1].parameters.gates)
        inactivation_coefficient ==
            IF channel.inactivation = NoGate THEN MagScale
            ELSE powi(channel.inactivation[1].magnitude,
                      channel.inactivation[1].parameters.gates)
    IN  Quot(activation_coefficient * inactivation_coefficient, MagScale)

\* Channel::step
Channel_step(channel, membrane_potential, interval) ==
    [ channel EXCEPT
        !.activation =
            IF @ = NoGate THEN NoGate
            ELSE << GateState_step(@[1], membrane_potential, interval) >>,
        !.inactivation =
            IF @ = NoGate THEN NoGate
            ELSE << GateState_step(@[1], membrane_potential, interval) >> ]

\* GateState::serialize: the pair of the gate's parameters under the field
\* names of serialize::GatingParameters and of its magnitude (an f32, here
\* with its finite flag)
GateState_serialize(g) ==
    << [ gates |-> g.parameters.gates,
         steady_state_magnitude |->
           [ slope |-> g.parameters.steady_state_magnitude.slope,
             v_at_half_max_mv |-> g.parameters.steady_state_magnitude.v_at_half_max ],
         time_constant |->
           CASE g.parameters.time_constant.law = "Instantaneous" ->
                  [ law |-> "Instantaneous" ]
             [] g.parameters.time_constant.law = "Sigmoid" ->
                  [ law |-> "Sigmoid",
                    v_at_max_tau |-> g.parameters.time_constant.v_at_max_tau,
                    c_base |-> g.parameters.time_constant.c_base,
                    c_amp |-> g.parameters.time_constant.c_amp,
                    sigma |-> g.parameters.time_constant.sigma ]
             [] g.parameters.time_constant.law = "LinearExp" ->
                  [ law |-> "LinearExp",
                    coef |-> g.parameters.time_constant.coef,
                    v_offset_mv |-> g.parameters.time_constant.v_offset,
                    inner_div |-> g.parameters.time_constant.inner_div ] ],
       [ magnitude |-> g.magnitude, finite |-> g.finite ] >>

\* IonSelectivity::serialize
IonSelectivity_serialize(ion_selectivity) ==
    [ na |-> ion_selectivity.na, k |-> ion_selectivity.k,
      ca |-> ion_selectivity.ca, cl |-> ion_selectivity.cl ]

\* Channel::serialize: both gate fields are mapped from self.activation
Channel_serialize(channel) ==
    [ activation |->
        IF channel.activation = NoGate THEN NoGate
        ELSE << GateState_serialize(channel.activation[1]) >>,
      inactivation |->
        IF channel.activation = NoGate THEN NoGate
        ELSE << GateState_serialize(channel.activation[1]) >>,
      ion_selectivity |-> IonSelectivity_serialize(channel.ion_selectivity) ]

\* MembraneChannel::channel_current_per_cm, in units of 1 / (MagScale * SelScale)
channel_current_per_cm(mc, k_rev, na_rev, ca_rev, cl_rev, membrane_potential) ==
    LET gating_coefficient == conductance_coefficient(mc.channel)
        k_current  == mc.channel.ion_selectivity.k * gating_coefficient
                        * (membrane_potential - k_rev)
        na_current == mc.channel.ion_selectivity.na * gating_coefficient
                        * (membrane_potential - na_rev)
        ca_current == mc.channel.ion_selectivity.ca * gating_coefficient
                        * (membrane_potential - ca_rev)
        cl_current == mc.channel.ion_selectivity.cl * gating_coefficient
                        * (membrane_potential - cl_rev)
    IN  (k_current + na_current + ca_current + cl_current) * mc.siemens_per_square_cm

RECURSIVE SumCurrents(_, _, _, _, _, _)
SumCurrents(channels, k_rev, na_rev, ca_rev, cl_rev, membrane_potential) ==
    IF channels = << >> THEN 0
    ELSE channel_current_per_cm(Head(channels), k_rev, na_rev, ca_rev, cl_rev,
                                membrane_potential)
         + SumCurrents(Tail(channels), k_rev, na_rev, ca_rev, cl_rev,
                       membrane_potential)

\* Membrane::current_per_square_cm(k_reversal, na_reversal, ca_reversal,
\* cl_reversal, membrane_potential)
current_per_square_cm(membrane, k_rev, na_rev, ca_rev, cl_rev, membrane_potential) ==
    SumCurrents(membrane.membrane_channels, k_rev, na_rev, ca_rev, cl_rev,
                membrane_potential)

\* every channel of the membrane stepped
step_channels(membrane, membrane_potential, interval) ==
    [ membrane EXCEPT !.membrane_channels =
        [ i \in DOMAIN @ |->
            [ @[i] EXCEPT !.channel = Channel_step(@, membrane_potential, interval) ] ] ]

----------------------------------------------------------------------------
(* stimulator.rs *)

\* Stimulator::default, times in timestamp units, currents in model units
DefaultStimulator ==
    [ envelope |-> [period |-> 4, onset |-> 0, offset |-> 2],
      current_shape |-> [shape |-> "SquareWave", on_current |-> 6, off_current |-> -2] ]

\* whether the f32 quotient envelope_time / envelope_length is within [0, 1]:
\* a negative length turns both comparisons around, and with a zero length
\* the quotient is inf, -inf or NaN, which is never within
window_within(envelope_time, envelope_length) ==
    IF envelope_length > 0
    THEN envelope_time >= 0 /\ envelope_time <= envelope_length
    ELSE IF envelope_length < 0
         THEN envelope_time <= 0 /\ envelope_time >= envelope_length
         ELSE FALSE

\* Stimulator::current for the SquareWave shape with the envelope closing
\* one time unit before its offset
Stimulator_current_closing_early(stimulator, t) ==
    LET cycle_time == t % stimulator.envelope.period
        envelope_time == cycle_time - stimulator.envelope.onset
        envelope_length == stimulator.envelope.offset - stimulator.envelope.onset
        in_envelope == window_within(envelope_time, envelope_length - 1)
    IN  IF in_envelope THEN stimulator.current_shape.on_current
        ELSE stimulator.current_shape.off_current

\* Stimulator::current for the SquareWave shape: rem_euclid gives the time
\* within the cycle, window_completion is envelope_time / envelope_length
Stimulator_current(stimulator, t) ==
    LET cycle_time == t % stimulator.envelope.period
        envelope_time == cycle_time - stimulator.envelope.onset
        envelope_length == stimulator.envelope.offset - stimulator.envelope.onset
        in_envelope == window_within(envelope_time, envelope_length)
    IN  IF in_envelope THEN stimulator.current_shape.on_current
        ELSE stimulator.current_shape.off_current

----------------------------------------------------------------------------
(* plugin.rs: the per-segment part of step_biophysics *)

\* Geometry::surface_area, in units of pi
surface_area(geometry) == geometry.diameter * geometry.length

\* lines 91-119 of the loop over segments_query: the voltage after the channel
\* currents have charged the membrane.  The reversal potentials are passed in
\* the order of the call: k, na, cl, ca.
channel_voltage(seg, env, interval_seconds) ==
    LET area == surface_area(seg.geometry)
        current ==
            -1 * current_per_square_cm(seg.membrane,
                    k_reversal(seg.solution, env.extracellular_solution, env.temperature),
                    na_reversal(seg.solution, env.extracellular_solution, env.temperature),
                    cl_reversal(seg.solution, env.extracellular_solution, env.temperature),
                    ca_reversal(seg.solution, env.extracellular_solution, env.temperature),
                    seg.membrane_voltage) * area
        capacitance == seg.membrane.capacitance * area
    IN  seg.membrane_voltage
          + Quot(current * interval_seconds, capacitance * MagScale * SelScale)

\* lines 134-142: the voltage change by the input and stimulator currents
applied_voltage(seg, now, interval_seconds) ==
    LET area == surface_area(seg.geometry)
        stimulator_current ==
            IF seg.stimulator = << >> THEN 0
            ELSE Stimulator_current(seg.stimulator[1], now)
        current_microamps == seg.input_current + stimulator_current
        capacitance == seg.membrane.capacitance * area
    IN  Quot(current_microamps * area * interval_seconds, capacitance)

\* step_segment with the two statements exchanged: the channels are stepped
\* with the voltage of the previous tick, then the voltage is moved
step_segment_gates_first(seg, env, now, interval_seconds) ==
    LET voltage_1 == channel_voltage(seg, env, interval_seconds)
        membrane_1 == step_channels(seg.membrane, seg.membrane_voltage, interval_seconds)
        voltage_2 == voltage_1 + applied_voltage(seg, now, interval_seconds)
    IN  [ seg EXCEPT !.membrane = membrane_1, !.membrane_voltage = voltage_2 ]

\* the body of the loop over segments_query: channel currents move the
\* voltage, the channels are stepped with the moved voltage, input and
\* stimulator currents move the voltage
step_segment(seg, env, now, interval_seconds) ==
    LET voltage_1 == channel_voltage(seg, env, interval_seconds)
        membrane_1 == step_channels(seg.membrane, voltage_1, interval_seconds)
        voltage_2 == voltage_1 + applied_voltage(seg, now, interval_seconds)
    IN  [ seg EXCEPT !.membrane = membrane_1, !.membrane_voltage = voltage_2 ]

\* crates/reuron Segment::step on the components of a segment entity: one
\* dv_dt holds the channel currents and the injected current (the division by
\* the capacitance taken term by term), the new potential is stored, and every
\* channel is stepped with the new potential
Segment_step_on_components(seg, env, now, interval_seconds) ==
    LET new_membrane_potential ==
            channel_voltage(seg, env, interval_seconds)
              + applied_voltage(seg, now, interval_seconds)
    IN  [ seg EXCEPT
            !.membrane_voltage = new_membrane_potential,
            !.membrane = step_channels(@, new_membrane_potential, interval_seconds) ]

----------------------------------------------------------------------------
(* plugin.rs: the loop over junctions_query *)

\* constants::CONDUCTANCE_PER_SQUARE_CM times pi times 1e-3, in model units
CONDUCTANCE_PER_SQUARE_CM == 1

\* Query::get_many_mut([a, b]) succeeds when both entities match the query
\* and are distinct
get_many_mut_ok(segs, a, b) == a \in DOMAIN segs /\ b \in DOMAIN segs /\ a # b

\* apply_junction with the first segment's capacitance in both quotients
apply_junction_one_capacitance(segs, junction, interval_seconds) ==
    LET s1 == segs[junction.first_segment]
        s2 == segs[junction.second_segment]
        capacitance1 == s1.membrane.capacitance * surface_area(s1.geometry)
        mutual_conductance == junction.pore_diameter * CONDUCTANCE_PER_SQUARE_CM
        first_to_second_current ==
            mutual_conductance * (s1.membrane_voltage - s2.membrane_voltage)
    IN  [ segs EXCEPT
            ![junction.first_segment].membrane_voltage =
                @ - Quot(first_to_second_current * interval_seconds, capacitance1),
            ![junction.second_segment].membrane_voltage =
                @ + Quot(first_to_second_current * interval_seconds, capacitance1) ]

\* the Ok arm of the junction loop: both voltages are read, then both written
apply_junction(segs, junction, interval_seconds) ==
    LET s1 == segs[junction.first_segment]
        s2 == segs[junction.second_segment]
        capacitance1 == s1.membrane.capacitance * surface_area(s1.geometry)
        capacitance2 == s2.membrane.capacitance * surface_area(s2.geometry)
        mutual_conductance == junction.pore_diameter * CONDUCTANCE_PER_SQUARE_CM
        first_to_second_current ==
            mutual_conductance * (s1.membrane_voltage - s2.membrane_voltage)
    IN  [ segs EXCEPT
            ![junction.first_segment].membrane_voltage =
                @ - Quot(first_to_second_current * interval_seconds, capacitance1),
            ![junction.second_segment].membrane_voltage =
                @ + Quot(first_to_second_current * interval_seconds, capacitance2) ]

\* the junction loop over the junctions in query order: the segments after the
\* loop and whether it ran to its end ("ok") or hit the panic of the Err arm
RECURSIVE junction_loop(_, _, _)
junction_loop(segs, js, interval_seconds) ==
    IF js = << >> THEN [segs |-> segs, ok |-> TRUE]
    ELSE IF get_many_mut_ok(segs, Head(js).first_segment, Head(js).second_segment)
         THEN junction_loop(apply_junction(segs, Head(js), interval_seconds),
                            Tail(js), interval_seconds)
         ELSE [segs |-> segs, ok |-> FALSE]

----------------------------------------------------------------------------
(* neuron/synapse.rs; transmitter concentrations in units of 0.1 mM *)

\* TransmitterPump::target_concentration
target_concentration(pump, v) ==
    pump.target_concentration_min
      + Quot((pump.target_concentration_max - pump.target_concentration_min)
               * Logistic(Quot(pump.target_concentration_v_at_half_max - v,
                               pump.target_concentration_v_slope)),
             MagScale)

\* TransmitterPump::time_constant
time_constant(pump, v) ==
    LET numerator == (pump.time_constant_v_at_max_tau - v)
                       * (pump.time_constant_v_at_max_tau - v)
        denominator == pump.time_constant_sigma * pump.time_constant_sigma
    IN  pump.time_constant_c_base
          + Quot(pump.time_constant_c_amp, Pow2(Quot(numerator, denominator)))

\* Sensitivity::gating_coefficient, in magnitude units
gating_coefficient(sensitivity, glutamate) ==
    Logistic((sensitivity.concentration_at_half_max - glutamate) * sensitivity.slope)

\* SynapseMembranes::step that also moves the pump's resting target to the
\* concentration it has reached
SynapseMembranes_step_adapting_pump(sm, presynaptic_potential, postsynaptic_potential, interval) ==
    LET concentration_slope_dt ==
            Quot((target_concentration(sm.presynaptic_pump, presynaptic_potential)
                    - sm.glutamate) * interval,
                 time_constant(sm.presynaptic_pump, presynaptic_potential))
    IN  [ sm EXCEPT
            !.glutamate = @ + concentration_slope_dt,
            !.presynaptic_pump.target_concentration_min = sm.glutamate + concentration_slope_dt,
            !.postsynaptic_receptor.membrane_channel.channel =
                Channel_step(@, postsynaptic_potential, interval) ]

\* SynapseMembranes::step with its one glutamate pump; the receptor channel
\* is stepped with the postsynaptic potential
SynapseMembranes_step(sm, presynaptic_potential, postsynaptic_potential, interval) ==
    LET concentration_slope_dt ==
            Quot((target_concentration(sm.presynaptic_pump, presynaptic_potential)
                    - sm.glutamate) * interval,
                 time_constant(sm.presynaptic_pump, presynaptic_potential))
    IN  [ sm EXCEPT
            !.glutamate = @ + concentration_slope_dt,
            !.postsynaptic_receptor.membrane_channel.channel =
                Channel_step(@, postsynaptic_potential, interval) ]

\* apply_current: synapse_resistance_ohms, in model units
synapse_resistance_ohms == 1

\* SynapseMembranes::current, in units of 1 / (MagScale * SelScale); the
\* reversal potentials are passed in the order k, na, cl, ca
SynapseMembranes_current(sm, temperature, postsynaptic_potential, postsynaptic_solution) ==
    LET channel_current ==
            channel_current_per_cm(sm.postsynaptic_receptor.membrane_channel,
                k_reversal(postsynaptic_solution, sm.cleft_solution, temperature),
                na_reversal(postsynaptic_solution, sm.cleft_solution, temperature),
                cl_reversal(postsynaptic_solution, sm.cleft_solution, temperature),
                ca_reversal(postsynaptic_solution, sm.cleft_solution, temperature),
                postsynaptic_potential)
        coefficient ==
            gating_coefficient(sm.postsynaptic_receptor.neurotransmitter_sensitivity,
                               sm.glutamate)
    IN  Quot(channel_current, MagScale) * coefficient * sm.surface_area

\* SynapseMembranes::apply_current: the new postsynaptic potential
apply_current(sm, interval, temperature, postsynaptic_potential, postsynaptic_solution) ==
    postsynaptic_potential
      + Quot(-1 * SynapseMembranes_current(sm, temperature, postsynaptic_potential,
                                           postsynaptic_solution)
                * synapse_resistance_ohms * interval,
             MagScale * SelScale)

\* the loop over synapses_query in query order: a pair get_many_mut refuses is
\* reported and skipped.  The result carries the segments, the synapses and
\* whether a synapse was skipped.
RECURSIVE synapse_loop(_, _, _, _)
synapse_loop(segs, syns, i, interval_seconds) ==
    IF i > Len(syns) THEN [segs |-> segs, syns |-> syns, skipped |-> FALSE]
    ELSE IF get_many_mut_ok(segs, syns[i].pre_segment, syns[i].post_segment)
         THEN LET vm1 == segs[syns[i].pre_segment].membrane_voltage
                  post == segs[syns[i].post_segment]
                  stepped == SynapseMembranes_step(syns[i].synapse_membranes, vm1,
                                 post.membrane_voltage, interval_seconds)
                  vm2 == apply_current(stepped, interval_seconds, BODY_TEMPERATURE,
                                       post.membrane_voltage, post.solution)
              IN  synapse_loop(
                      [segs EXCEPT ![syns[i].post_segment].membrane_voltage = vm2],
                      [syns EXCEPT ![i].synapse_membranes = stepped],
                      i + 1, interval_seconds)
         ELSE [ synapse_loop(segs, syns, i + 1, interval_seconds)
                  EXCEPT !.skipped = TRUE ]

----------------------------------------------------------------------------
(* integrations/grace.rs: scenes and their construction *)

MaxSegments == 3

\* the activation of the K channel of the soma membrane
K_ACTIVATION ==
    [ gates |-> 2,
      steady_state_magnitude |-> [v_at_half_max |-> -53, slope |-> 15],
      time_constant |-> [law |-> "Sigmoid", v_at_max_tau |-> -79,
                         c_base |-> 3, c_amp |-> 3, sigma |-> 30] ]

\* the voltage the gates of a deserialized membrane are built at
InitialMembranePotential == -80

\* Membrane::deserialize of the scene's membranes: the soma membrane with a
\* gated K channel and a leak, and the neurite membrane with a leak
Membranes ==
    << [ capacitance |-> 4,
         membrane_channels |->
           << [ channel |-> [ activation |->
                                << build_gate(K_ACTIVATION, InitialMembranePotential) >>,
                              inactivation |-> NoGate,
                              ion_selectivity |-> K ],
                siemens_per_square_cm |-> 1 ],
              [ channel |-> [ activation |-> NoGate, inactivation |-> NoGate,
                              ion_selectivity |-> CL ],
                siemens_per_square_cm |-> 1 ] >> ],
       [ capacitance |-> 2,
         membrane_channels |->
           << [ channel |-> [ activation |-> NoGate, inactivation |-> NoGate,
                              ion_selectivity |-> CL ],
                siemens_per_square_cm |-> 1 ] >> ] >>

\* common_channels::AMPA_CHANNEL
AMPA == [na |-> SelScale \div 2, k |-> SelScale \div 2, ca |-> 0, cl |-> 0]

\* synapse::examples::excitatory_synapse
excitatory_synapse ==
    [ cleft_solution |-> INTERSTICIAL_FLUID,
      glutamate |-> 1,
      presynaptic_pump |->
        [ target_concentration_max |-> 110, target_concentration_min |-> 1,
          target_concentration_v_at_half_max |-> 0,
          target_concentration_v_slope |-> 1,
          time_constant_c_amp |-> 2, time_constant_c_base |-> 2,
          time_constant_sigma |-> 1, time_constant_v_at_max_tau |-> 0 ],
      postsynaptic_receptor |->
        [ membrane_channel |->
            [ channel |-> [ activation |-> NoGate, inactivation |-> NoGate,
                            ion_selectivity |-> AMPA ],
              siemens_per_square_cm |-> 1 ],
          neurotransmitter_sensitivity |->
            [ concentration_at_half_max |-> 30, slope |-> 1 ] ],
      surface_area |-> 1 ]

\* the parents a scene gives segment i of n: the soma has none (-1) or an id
\* no segment has (0); an inner segment hangs on the soma or on the segment
\* before it; the last segment may also name an unknown id or itself
Parents(i, n) ==
    IF i = 1 THEN {-1, 0}
    ELSE IF i < n THEN {1, i - 1}
    ELSE {0, 1, i - 1, i}

\* serialize::Neuron.segments: ids 1..n, the first of type 1, the others 2
SegmentLists(n) ==
    { [ i \in 1..n |-> [id |-> i, type_ |-> IF i = 1 THEN 1 ELSE 2, parent |-> p[i]] ] :
        p \in { q \in [1..n -> -1..n] : \A i \in 1..n : q[i] \in Parents(i, n) } }

\* serialize::Scene.synapses: none, or one synapse from the first segment to
\* itself, to the last segment, or to the 0-based index n, which is past the
\* end of the neuron's segments
SynapseLists(n) ==
    { << >> } \cup
    { << [pre_neuron |-> 0, pre_segment |-> 0, post_neuron |-> 0, post_segment |-> b] >> :
        b \in {0, n - 1, n} }

\* serialize::Scene with one neuron
Scenes ==
    UNION { { [segments |-> segs, synapses |-> syns] :
                segs \in SegmentLists(n), syns \in SynapseLists(n) } :
            n \in 1..MaxSegments }

\* grace::soma: whether the neuron has a segment with parent -1 and type 1
has_soma(neuron_segments) ==
    \E i \in DOMAIN neuron_segments :
        neuron_segments[i].parent = -1 /\ neuron_segments[i].type_ = 1

\* the panics of GraceScene::spawn: no soma, a type without a membrane, a
\* synapse index past the end of the neuron's segment entities
spawn_panics(scene) ==
    \/ ~ has_soma(scene.segments)
    \/ \E i \in DOMAIN scene.segments :
          scene.segments[i].type_ \notin DOMAIN Membranes
    \/ \E k \in DOMAIN scene.synapses :
          \/ scene.synapses[k].pre_segment >= Len(scene.segments)
          \/ scene.synapses[k].post_segment >= Len(scene.segments)

\* constants::InputCurrent of every spawned segment, and its initial voltage v0
InputCurrent == -2
v0 == -88

\* the bundle spawn_neuron spawns for one segment
SegmentBundle(segment) ==
    [ solution |-> EXAMPLE_CYTOPLASM,
      membrane |-> Membranes[segment.type_],
      membrane_voltage |-> v0,
      geometry |-> [diameter |-> 1, length |-> 1],
      input_current |-> InputCurrent,
      stimulator |-> << >> ]

\* spawn_neuron's segment entities: the neuron takes first_entity, the
\* segment with id i the entity first_entity + i
spawn_segments(neuron_segments, first_entity) ==
    [ e \in { first_entity + i : i \in DOMAIN neuron_segments } |->
        SegmentBundle(neuron_segments[e - first_entity]) ]

\* spawn_neuron's loop over entities_and_parents in the iteration order of
\* the hash map: a junction from the parent's entity to the segment's, none
\* for a parent the map does not hold; entity(id) is the entity of segment id
RECURSIVE spawn_junctions(_, _, _)
spawn_junctions(neuron_segments, order, first_entity) ==
    IF order = << >> THEN << >>
    ELSE LET segment == neuron_segments[Head(order)]
             rest == spawn_junctions(neuron_segments, Tail(order), first_entity)
         IN  IF segment.parent \in DOMAIN neuron_segments
             THEN << [ first_segment |-> first_entity + segment.parent,
                       second_segment |-> first_entity + segment.id,
                       pore_diameter |-> 1 ] >> \o rest
             ELSE rest

\* spawn_synapse for every synapse of the scene
spawn_synapses(scene, first_entity) ==
    [ k \in DOMAIN scene.synapses |->
        [ pre_segment |-> first_entity + scene.synapses[k].pre_segment + 1,
          post_segment |-> first_entity + scene.synapses[k].post_segment + 1,
          synapse_membranes |-> excitatory_synapse ] ]

\* the iteration orders of a hash map with the keys 1..n
Orders(n) == { o \in [1..n -> 1..n] : \A i, j \in 1..n : o[i] = o[j] => i = j }

----------------------------------------------------------------------------
(* crates/reuron neuron/channel.rs, neuron/segment.rs: ChannelBuilder and   *)
(* the plain Segment.  A segment's membrane potential is kept in units of   *)
(* 1/VoltScale mV, its Interval in ms, its capacitance in uF/cm^2, its peak *)
(* conductances in units of 1/SiemensScale mS/cm^2 and its currents in uA;  *)
(* the gates are evaluated at the whole millivolt.                          *)

\* the fixed-point unit of a segment's membrane potential: VoltScale is 1 mV
VoltScale == 8

\* the finite range of a stored membrane potential; beyond it the f32 is inf/NaN
PotentialLimit == 1500

\* the fixed-point unit of a peak conductance: SiemensScale is 1 mS/cm^2
SiemensScale == 10

NA == [na |-> SelScale, k |-> 0, ca |-> 0, cl |-> 0]

\* IonSelectivity::normalize: every weight divided by the sum of the weights;
\* with a zero sum the quotients are 0.0 / 0.0, NaN
normalize(weights) ==
    LET sum == weights.k + weights.na + weights.ca + weights.cl
    IN  IF sum = 0
        THEN [ k |-> 0, na |-> 0, ca |-> 0, cl |-> 0, finite |-> FALSE ]
        ELSE [ k  |-> Quot(weights.k * SelScale, sum),
               na |-> Quot(weights.na * SelScale, sum),
               ca |-> Quot(weights.ca * SelScale, sum),
               cl |-> Quot(weights.cl * SelScale, sum),
               finite |-> TRUE ]

\* ChannelBuilder::build: each present gate at its steady state at the initial
\* membrane potential (mV), the selectivity normalized
ChannelBuilder_build(builder, initial_membrane_potential) ==
    [ activation |->
        IF builder.activation_parameters = << >> THEN NoGate
        ELSE << build_gate(builder.activation_parameters[1], initial_membrane_potential) >>,
      inactivation |->
        IF builder.inactivation_parameters = << >> THEN NoGate
        ELSE << build_gate(builder.inactivation_parameters[1], initial_membrane_potential) >>,
      ion_selectivity |-> normalize(builder.ion_selectivity) ]

\* a membrane potential as the whole millivolt the gate curves are read at
MilliVolts(potential) == Quot(potential, VoltScale)

\* Segment::surface_area, in units of pi
Segment_surface_area(seg) == seg.geometry.diameter * seg.geometry.length

\* Membrane_current_per_square_cm declaring its reversal potentials in the
\* order k, na, ca, cl while its callers pass k, na, cl, ca
Membrane_current_ca_before_cl(membrane, k_rev, na_rev, cl_rev, ca_rev, membrane_potential) ==
    current_per_square_cm(membrane, k_rev, na_rev, cl_rev, ca_rev, membrane_potential)

\* the crate's Membrane::current_per_square_cm(k_reversal, na_reversal,
\* cl_reversal, ca_reversal, membrane_potential): each ion's selectivity
\* times the distance to the reversal potential of the same name
Membrane_current_per_square_cm(membrane, k_rev, na_rev, cl_rev, ca_rev, membrane_potential) ==
    current_per_square_cm(membrane, k_rev, na_rev, ca_rev, cl_rev, membrane_potential)

\* whether the logarithm of reversal_potential is finite: ln(external /
\* internal) is inf, -inf or NaN as soon as a concentration is zero
reversal_finite(internal_concentration, external_concentration) ==
    internal_concentration > 0 /\ external_concentration > 0

\* whether the f32 that Segment::dv_dt returns is finite: the stored
\* potential, the four reversal potentials (each enters every channel's sum,
\* and 0.0 * inf is NaN), every selectivity and every gate must be
dv_dt_finite(seg, extracellular_solution) ==
    /\ seg.finite
    /\ reversal_finite(seg.intracellular_solution.k_concentration,
                       extracellular_solution.k_concentration)
    /\ reversal_finite(seg.intracellular_solution.na_concentration,
                       extracellular_solution.na_concentration)
    /\ reversal_finite(seg.intracellular_solution.cl_concentration,
                       extracellular_solution.cl_concentration)
    /\ reversal_finite(seg.intracellular_solution.ca_concentration,
                       extracellular_solution.ca_concentration)
    /\ \A i \in DOMAIN seg.membrane.membrane_channels :
          LET channel == seg.membrane.membrane_channels[i].channel
          IN  /\ channel.ion_selectivity.finite
              /\ channel.activation # NoGate => channel.activation[1].finite
              /\ channel.inactivation # NoGate => channel.inactivation[1].finite

\* Segment::dv_dt, in potential units per ms
Segment_dv_dt(seg, temperature, extracellular_solution) ==
    LET area == Segment_surface_area(seg)
        unit == MagScale * SelScale * SiemensScale
        per_square_cm ==
            Membrane_current_per_square_cm(seg.membrane,
                VoltScale * k_reversal(seg.intracellular_solution,
                                       extracellular_solution, temperature),
                VoltScale * na_reversal(seg.intracellular_solution,
                                        extracellular_solution, temperature),
                VoltScale * cl_reversal(seg.intracellular_solution,
                                        extracellular_solution, temperature),
                VoltScale * ca_reversal(seg.intracellular_solution,
                                        extracellular_solution, temperature),
                seg.membrane_potential)
        current == -1 * per_square_cm * area
                     - seg.synaptic_current * VoltScale * unit
                     + seg.input_current * VoltScale * unit * area
        capacitance == seg.membrane.capacitance * area
    IN  Quot(current, capacitance * unit)

\* a gate that was stepped with a NaN membrane potential
nan_gate(g) == IF g = NoGate THEN NoGate
               ELSE << [ g[1] EXCEPT !.magnitude = 0, !.finite = FALSE ] >>

\* every channel of the membrane stepped with a NaN membrane potential
nan_channels(membrane) ==
    [ membrane EXCEPT !.membrane_channels =
        [ i \in DOMAIN @ |->
            [ @[i] EXCEPT !.channel.activation = nan_gate(@),
                          !.channel.inactivation = nan_gate(@) ] ] ]

\* Segment::step that also consumes the synaptic current it has integrated
Segment_step_clearing_current(seg, temperature, extracellular_solution, interval) ==
    LET new_membrane_potential ==
            seg.membrane_potential
              + Segment_dv_dt(seg, temperature, extracellular_solution) * interval
    IN  IF dv_dt_finite(seg, extracellular_solution)
           /\ Abs(new_membrane_potential) <= PotentialLimit
        THEN [ seg EXCEPT
                 !.membrane_potential = new_membrane_potential,
                 !.synaptic_current = 0,
                 !.membrane = step_channels(@, MilliVolts(new_membrane_potential),
                                            interval) ]
        ELSE [ seg EXCEPT
                 !.membrane_potential = 0,
                 !.finite = FALSE,
                 !.synaptic_current = 0,
                 !.membrane = nan_channels(@) ]

\* Segment::step: the currents charge the membrane, the new potential is
\* stored whatever it is, and every channel is stepped with it
Segment_step(seg, temperature, extracellular_solution, interval) ==
    LET new_membrane_potential ==
            seg.membrane_potential
              + Segment_dv_dt(seg, temperature, extracellular_solution) * interval
    IN  IF dv_dt_finite(seg, extracellular_solution)
           /\ Abs(new_membrane_potential) <= PotentialLimit
        THEN [ seg EXCEPT
                 !.membrane_potential = new_membrane_potential,
                 !.membrane = step_channels(@, MilliVolts(new_membrane_potential),
                                            interval) ]
        ELSE [ seg EXCEPT
                 !.membrane_potential = 0,
                 !.finite = FALSE,
                 !.membrane = nan_channels(@) ]

\* giant_squid::LEAK_CHANNEL
LEAK_CHANNEL ==
    [ activation_parameters |-> << >>, inactivation_parameters |-> << >>,
      ion_selectivity |-> CL ]

\* giant_squid::K_CHANNEL
K_CHANNEL ==
    [ activation_parameters |-> << K_ACTIVATION >>, inactivation_parameters |-> << >>,
      ion_selectivity |-> K ]

\* giant_squid::NA_CHANNEL: three activation gates and one inactivation gate
NA_CHANNEL ==
    [ activation_parameters |->
        << [ gates |-> 3,
             steady_state_magnitude |-> [v_at_half_max |-> -40, slope |-> 15],
             time_constant |-> [law |-> "Sigmoid", v_at_max_tau |-> -38,
                                c_base |-> 1, c_amp |-> 3, sigma |-> 30] ] >>,
      inactivation_parameters |->
        << [ gates |-> 1,
             steady_state_magnitude |-> [v_at_half_max |-> -62, slope |-> -7],
             time_constant |-> [law |-> "Sigmoid", v_at_max_tau |-> -67,
                                c_base |-> 2, c_amp |-> 2, sigma |-> 20] ] >>,
      ion_selectivity |-> NA ]

\* a ChannelBuilder with no gates: a passive channel
passive(ion_selectivity) ==
    [ activation_parameters |-> << >>, inactivation_parameters |-> << >>,
      ion_selectivity |-> ion_selectivity ]

\* examples::simple_leak: one leak channel of 0.3 mS/cm^2, built at -80 mV
simple_leak ==
    [ intracellular_solution |-> EXAMPLE_CYTOPLASM,
      geometry |-> [diameter |-> 1, length |-> 2],
      membrane |->
        [ membrane_channels |->
            << [ channel |-> ChannelBuilder_build(LEAK_CHANNEL, -80),
                 siemens_per_square_cm |-> 3 ] >>,
          capacitance |-> 1 ],
      membrane_potential |-> -80 * VoltScale,
      finite |-> TRUE,
      input_current |-> 0,
      synaptic_current |-> 0 ]

\* examples::k_channels_only: one gated K channel, built at -80 mV
k_channels_only ==
    [ intracellular_solution |-> EXAMPLE_CYTOPLASM,
      geometry |-> [diameter |-> 1, length |-> 2],
      membrane |->
        [ membrane_channels |->
            << [ channel |-> ChannelBuilder_build(K_CHANNEL, -80),
                 siemens_per_square_cm |-> 6 ] >>,
          capacitance |-> 1 ],
      membrane_potential |-> -80 * VoltScale,
      finite |-> TRUE,
      input_current |-> 0,
      synaptic_current |-> 0 ]

\* examples::giant_squid_axon: the K, Na and leak channels built at -70 mV,
\* with conductances in the proportion 36 : 120 : 0.3 brought into the range
\* of the model
giant_squid_axon ==
    [ intracellular_solution |-> EXAMPLE_CYTOPLASM,
      geometry |-> [diameter |-> 1, length |-> 3],
      membrane |->
        [ membrane_channels |->
            << [ channel |-> ChannelBuilder_build(K_CHANNEL, -70),
                 siemens_per_square_cm |-> 6 ],
               [ channel |-> ChannelBuilder_build(NA_CHANNEL, -70),
                 siemens_per_square_cm |-> 20 ],
               [ channel |-> ChannelBuilder_build(LEAK_CHANNEL, -70),
                 siemens_per_square_cm |-> 1 ] >>,
          capacitance |-> 1 ],
      membrane_potential |-> -70 * VoltScale,
      finite |-> TRUE,
      input_current |-> 0,
      synaptic_current |-> 0 ]

\* examples::passive_channels(na_conductance, k_conductance, cl_conductance):
\* passive Cl, K and Na channels, built at -58 mV
passive_channels(na_conductance, k_conductance, cl_conductance) ==
    [ intracellular_solution |-> EXAMPLE_CYTOPLASM,
      geometry |-> [diameter |-> 2, length |-> 1],
      membrane |->
        [ membrane_channels |->
            << [ channel |-> ChannelBuilder_build(passive(CL), -58),
                 siemens_per_square_cm |-> cl_conductance ],
               [ channel |-> ChannelBuilder_build(passive(K), -58),
                 siemens_per_square_cm |-> k_conductance ],
               [ channel |-> ChannelBuilder_build(passive(NA), -58),
                 siemens_per_square_cm |-> na_conductance ] >>,
          capacitance |-> 1 ],
      membrane_potential |-> -58 * VoltScale,
      finite |-> TRUE,
      input_current |-> 0,
      synaptic_current |-> 0 ]

----------------------------------------------------------------------------
(* Inputs of the gate specification *)

\* membrane potentials, mV
GateVoltages == {-88, -60, -40, 0}

Instantaneous == [law |-> "Instantaneous"]

\* giant_squid::NA_CHANNEL activation (and its inactivation, slope < 0), and
\* rat_thalamocortical::NA_TRANSIENT (Instantaneous activation, LinearExp
\* inactivation), with time constants of 1 to 4 gate clock ticks
GatingParameters ==
    { [ gates |-> 3,
        steady_state_magnitude |-> [v_at_half_max |-> -40, slope |-> 15],
        time_constant |-> [law |-> "Sigmoid", v_at_max_tau |-> -38,
                           c_base |-> 1, c_amp |-> 3, sigma |-> 30] ],
      [ gates |-> 1,
        steady_state_magnitude |-> [v_at_half_max |-> -62, slope |-> -7],
        time_constant |-> [law |-> "Sigmoid", v_at_max_tau |-> -67,
                           c_base |-> 2, c_amp |-> 2, sigma |-> 20] ],
      [ gates |-> 1,
        steady_state_magnitude |-> [v_at_half_max |-> -30, slope |-> 5],
        time_constant |-> Instantaneous ],
      [ gates |-> 1,
        steady_state_magnitude |-> [v_at_half_max |-> -70, slope |-> -6],
        time_constant |-> [law |-> "LinearExp", coef |-> 2, v_offset |-> -40,
                           inner_div |-> 33] ] }

GateIntervals == 1..MaxInterval

----------------------------------------------------------------------------
(* Inputs of the segment specification *)

\* the membrane potentials a caller sets a segment to, mV
SegmentVoltages == {-160, -80, 1}

\* the Intervals a segment is stepped with, ms
SegmentIntervals == {1, 2}

\* selectivity weights handed to a ChannelBuilder: AMPA-like halves, three
\* equal weights, and no permeability at all
SelectivityWeights ==
    { [na |-> 1, k |-> 1, ca |-> 0, cl |-> 0],
      [na |-> 1, k |-> 1, ca |-> 1, cl |-> 0],
      [na |-> 0, k |-> 0, ca |-> 0, cl |-> 0] }

\* the segments under test: the crate's examples, passive_channels with the
\* conductances (3, 2, 1) mS/cm^2 of its test and with a tenth of them, a
\* stimulated segment, segments whose one channel has other selectivity
\* weights, and a segment whose cytoplasm holds no calcium
Segments ==
    { simple_leak, k_channels_only, giant_squid_axon,
      passive_channels(30, 20, 10), passive_channels(3, 2, 1),
      [ k_channels_only EXCEPT !.input_current = 2, !.synaptic_current = 1 ],
      [ simple_leak EXCEPT !.intracellular_solution.ca_concentration = 0 ] }
    \cup
    { [ simple_leak EXCEPT !.membrane.membrane_channels[1].channel =
                               ChannelBuilder_build(passive(weights), -80) ] :
        weights \in SelectivityWeights }

----------------------------------------------------------------------------
(* Each specification leaves the variables of the other at rest *)

\* the world of a freshly built App: no entities, Timestamp(0.0)
EmptyWorld ==
    /\ pc = "idle"
    /\ fetches = 0
    /\ next_entity = 0
    /\ segments = << >>
    /\ junctions = << >>
    /\ synapses = << >>
    /\ stimulations = << >>
    /\ timestamp = 0
    /\ ticks = 0
    /\ loads = 0
    /\ tick_start = [segments |-> << >>, timestamp |-> 0]
    /\ coupling_start = << >>
    /\ skipped = FALSE
    /\ failure = "none"

WorldAtRest ==
    /\ EmptyWorld
    /\ source = [segments |-> << >>, synapses |-> << >>]
    /\ simulation_step = 1

GateAtRest ==
    /\ gate = build_gate(K_ACTIVATION, InitialMembranePotential)
    /\ gateV = InitialMembranePotential
    /\ gateDt = 1
    /\ gateHistory = "built"

SegmentAtRest ==
    /\ cell = simple_leak
    /\ cellDt = 1
    /\ cellBuilt = simple_leak
    /\ cellResets = 0

----------------------------------------------------------------------------
(* integrations/grace.rs and swc_file.rs: simplify.  A neuron's segments    *)
(* are a sequence of records with an id and a parent (-1: none).            *)

\* get_children: the ids of the segments whose parent is the given id
get_children(entries, id) ==
    { entries[i].id : i \in { j \in DOMAIN entries : entries[j].parent = id } }

\* should_keep: the soma, the branches and leaves, and one id in ten
should_keep(entries) ==
    { entries[i].id :
        i \in { j \in DOMAIN entries :
                  \/ entries[j].id = 1
                  \/ Cardinality(get_children(entries, entries[j].id)) # 1
                  \/ entries[j].id % 10 = 0 } }

\* segments_as_map / as_map: the parent recorded for an id, and whether the
\* map has the id at all
has_entry(entries, id) == \E i \in DOMAIN entries : entries[i].id = id

parent_of(entries, id) ==
    entries[CHOOSE i \in DOMAIN entries : entries[i].id = id].parent

\* the while loop of simplify that gives an entry its grandparent once
resolve_parent_one_hop(entries, keep, parent, turns) ==
    IF parent \in keep \/ parent = -1 THEN [outcome |-> "returns", parent |-> parent]
    ELSE IF ~ has_entry(entries, parent) THEN [outcome |-> "panics", parent |-> parent]
    ELSE [outcome |-> "returns", parent |-> parent_of(entries, parent)]

\* the while loop of simplify for one entry: the parent moves to the
\* original grandparent until it is kept or -1; a parent that is not an
\* entry panics (expect), and a loop that has taken more turns than there
\* are entries is in a cycle of dropped entries and never ends
RECURSIVE resolve_parent(_, _, _, _)
resolve_parent(entries, keep, parent, turns) ==
    IF parent \in keep \/ parent = -1 THEN [outcome |-> "returns", parent |-> parent]
    ELSE IF ~ has_entry(entries, parent) THEN [outcome |-> "panics", parent |-> parent]
    ELSE IF turns > Len(entries) THEN [outcome |-> "hangs", parent |-> parent]
    ELSE resolve_parent(entries, keep, parent_of(entries, parent), turns + 1)

\* simplify: the entries in order get their resolved parents, the first loop
\* that does not return ends the call; then the dropped entries are filtered
simplify(entries) ==
    LET keep == should_keep(entries)
        resolved == [ i \in DOMAIN entries |->
                        resolve_parent(entries, keep, entries[i].parent, 0) ]
        stuck == { i \in DOMAIN entries : resolved[i].outcome # "returns" }
        first_stuck == CHOOSE i \in stuck : \A j \in stuck : i <= j
    IN  IF stuck # {}
        THEN [ outcome |-> resolved[first_stuck].outcome, segments |-> entries ]
        ELSE [ outcome |-> "simplified",
               segments |->
                 SelectSeq([ i \in DOMAIN entries |->
                               [ entries[i] EXCEPT !.parent = resolved[i].parent ] ],
                           LAMBDA e : e.id \in keep) ]

\* RingBuffer::new: size copies of the default, nothing written
RingBuffer_new(size, default) ==
    [ inner |-> [ i \in 1..size |-> default ], write_cursor |-> 0, len |-> 0 ]

\* whether RingBuffer::write panics: self.inner[ind] with ind past the end
write_panics(rb) == rb.write_cursor >= Len(rb.inner)

\* RingBuffer::write where inner[write_cursor] exists (Vec indices from 0)
RingBuffer_write(rb, value) ==
    LET advanced == rb.write_cursor + 1
    IN  [ inner |-> [rb.inner EXCEPT ![rb.write_cursor + 1] = value],
          write_cursor |-> IF advanced = Len(rb.inner) THEN 0 ELSE advanced,
          len |-> IF rb.len < Len(rb.inner) THEN rb.len + 1 ELSE rb.len ]

\* RingBuffer::contents that takes the buffer from its start in both cases
RingBuffer_contents_from_start(rb) ==
    SubSeq(rb.inner, 1, rb.len)

\* RingBuffer::contents: when full, inner[write_cursor..] followed by
\* inner[..write_cursor]; otherwise inner[0..len]
RingBuffer_contents(rb) ==
    IF rb.len = Len(rb.inner)
    THEN SubSeq(rb.inner, rb.write_cursor + 1, Len(rb.inner))
           \o SubSeq(rb.inner, 1, rb.write_cursor)
    ELSE SubSeq(rb.inner, 1, rb.len)

\* the waiting_fraction buffer of the toy-runner's initial_state, unwritten
RingAtRest ==
    /\ ring_buffer = RingBuffer_new(10, 0)
    /\ writes = << >>
    /\ ring_panicked = FALSE

\* no neuron given to simplify
SwcAtRest ==
    /\ swc = << >>
    /\ swc_loaded = << >>
    /\ swc_outcome = "simplified"

\* NeuronBenchPlugin::build: insert_resource(Stimulator::default())
WidgetAtRest == new_stimulators = DefaultStimulator

\* oscilloscope.rs: the lengths of the sample buffers and the number of traces
N_SAMPLES == 4
N_SOURCES == 2

\* Oscilloscope::init with the given sources; a source is TRUE for an entity
\* with a MembraneVoltage and FALSE for None
Oscilloscope_init(sources) ==
    [ buffers |-> [ i \in 1..N_SOURCES |-> [ x \in 0..(N_SAMPLES - 1) |-> 0 ] ],
      sources |-> sources,
      times |-> [ x \in 0..(N_SAMPLES - 1) |-> 0 ],
      write_offset |-> 0,
      last_known_simulation_step_seconds |-> 0 ]

OscilloscopeAtRest ==
    /\ oscilloscope = Oscilloscope_init([ i \in 1..N_SOURCES |-> FALSE ])
    /\ frames = 0
    /\ plot_outcome = "none"

UnitsAtRest ==
    /\ RingAtRest
    /\ SwcAtRest
    /\ WidgetAtRest
    /\ OscilloscopeAtRest

\* toy-runner initial_state: time in units of the initial interval (10 us),
\* time_coefficient in hundredths
initial_state ==
    [ time |-> 0, steps |-> 0, batches |-> 0, time_coefficient |-> 1,
      simulation_interval |-> 1, simulation_batch_size |-> 10 ]

\* no command in the handler
NoCommand == [tag |-> "none", value |-> 0]

\* main before its tasks have run: the Mutex free around initial_state()
RunnerAtRest ==
    /\ mutex = "free"
    /\ state = initial_state
    /\ runPc = "lock"
    /\ run_interval = 0
    /\ watchPc = "lock"
    /\ displayed = 0
    /\ handlerPc = "idle"
    /\ command = NoCommand
    /\ batch = [time |-> 0, simulation_interval |-> 0, time_coefficient |-> 0,
                used |-> << >>]
    /\ interleaved = FALSE

----------------------------------------------------------------------------
(* The gate specification: a gate is built at one voltage and then stepped, *)
(* the membrane potential being held or changed between the steps.         *)

InitGate ==
    /\ gateV \in GateVoltages
    /\ gateDt \in GateIntervals
    /\ \E p \in GatingParameters, initial \in GateVoltages :
          /\ gate = build_gate(p, initial)
          /\ gateHistory = IF gateV = initial THEN "built" ELSE "moved"
    /\ SegmentAtRest
    /\ WorldAtRest
    /\ RunnerAtRest
    /\ UnitsAtRest

\* Channel::step on the gate, at the held membrane potential
StepGate ==
    /\ gate' = GateState_step(gate, gateV, gateDt)
    /\ gateHistory' = IF gateHistory = "moved" THEN "moved" ELSE "held"
    /\ UNCHANGED <<gateV, gateDt, cellVars, worldVars, historyVars, runnerVars, unitVars>>

\* the membrane potential moves between two steps
SetMembranePotential ==
    /\ \E v \in GateVoltages : v # gateV /\ gateV' = v
    /\ gateHistory' = "moved"
    /\ UNCHANGED <<gate, gateDt, cellVars, worldVars, historyVars, runnerVars, unitVars>>

NextGate == StepGate \/ SetMembranePotential

SpecGate == InitGate /\ [][NextGate]_vars

\* the caller's loop keeps stepping the gate
SpecGateFair == SpecGate /\ WF_vars(StepGate)

----------------------------------------------------------------------------
(* The world specification: scenes are loaded and spawned, segments are     *)
(* clicked, and step_biophysics runs tick after tick.                       *)

MaxTicks == 2
MaxLoads == 2
MaxStimulations == 1

\* SimulationStepSeconds, in timestamp units
SimulationSteps == {1, 2}

\* plugin::default_env
default_env == [temperature |-> BODY_TEMPERATURE,
                extracellular_solution |-> INTERSTICIAL_FLUID]

Init ==
    /\ EmptyWorld
    /\ source \in Scenes
    /\ simulation_step \in SimulationSteps
    /\ GateAtRest
    /\ SegmentAtRest
    /\ RunnerAtRest
    /\ UnitsAtRest

\* load_ffg_scene: every Stimulation, Junction, Segment and Neuron entity is
\* despawned and the scene is requested
LoadScene ==
    /\ pc = "idle"
    /\ loads < MaxLoads
    /\ stimulations' = << >>
    /\ junctions' = << >>
    /\ segments' = << >>
    /\ fetches' = fetches + 1
    /\ loads' = loads + 1
    /\ UNCHANGED <<pc, source, next_entity, synapses, timestamp, simulation_step,
                   ticks, tick_start, coupling_start, skipped, failure, gateVars, cellVars, runnerVars, unitVars>>

\* the fetch callback with Err: nothing is sent to handle_loaded_neuron
FetchError ==
    /\ pc = "idle"
    /\ fetches > 0
    /\ fetches' = fetches - 1
    /\ UNCHANGED <<pc, source, next_entity, segments, junctions, synapses,
                   stimulations, timestamp, simulation_step, historyVars, gateVars, cellVars, runnerVars, unitVars>>

\* handle_loaded_neuron with a received scene: GraceScene::spawn, which
\* panics or spawns the neuron, its segments, its junctions (in the hash
\* map's order) and the synapses
HandleLoadedNeuron ==
    /\ pc = "idle"
    /\ fetches > 0
    /\ fetches' = fetches - 1
    /\ IF spawn_panics(source)
       THEN /\ pc' = "panicked"
            /\ failure' = "construction"
            /\ UNCHANGED <<next_entity, segments, junctions, synapses>>
       ELSE /\ \E order \in Orders(Len(source.segments)) :
                  junctions' = junctions \o
                      spawn_junctions(source.segments, order, next_entity)
            /\ segments' = spawn_segments(source.segments, next_entity) @@ segments
            /\ synapses' = synapses \o spawn_synapses(source, next_entity)
            /\ next_entity' = next_entity + Len(source.segments) + 1
            /\ UNCHANGED <<pc, failure>>
    /\ UNCHANGED <<source, stimulations, timestamp, simulation_step,
                   ticks, loads, tick_start, coupling_start, skipped, gateVars, cellVars, runnerVars, unitVars>>

\* add_stimulation: a click on a segment spawns a Stimulation marker for it
\* and inserts a clone of the Stimulator resource into the segment; the world
\* holds at most limit markers
add_stimulation(limit) ==
    /\ pc = "idle"
    /\ Len(stimulations) < limit
    /\ \E target \in DOMAIN segments :
          /\ stimulations' = Append(stimulations, [stimulation_segment |-> target])
          /\ segments' = [segments EXCEPT ![target].stimulator = << new_stimulators >>]
    /\ UNCHANGED <<pc, source, fetches, next_entity, junctions, synapses, timestamp,
                   simulation_step, historyVars, gateVars, cellVars, runnerVars, unitVars>>

\* a click on a segment while the world specification runs
AddStimulation == add_stimulation(MaxStimulations)

\* IntegrateSegments with the timestamp advanced at the head of the tick
IntegrateSegmentsAdvancingTime ==
    /\ pc = "idle"
    /\ ticks < MaxTicks
    /\ tick_start' = [segments |-> segments, timestamp |-> timestamp]
    /\ timestamp' = timestamp + simulation_step
    /\ segments' = [ e \in DOMAIN segments |->
                       step_segment(segments[e], default_env, timestamp', simulation_step) ]
    /\ coupling_start' = segments'
    /\ pc' = "junctions"
    /\ UNCHANGED <<source, fetches, next_entity, junctions, synapses, stimulations,
                   simulation_step, ticks, loads, skipped, failure, gateVars, cellVars, runnerVars, unitVars>>

\* step_biophysics, the loop over segments_query
IntegrateSegments ==
    /\ pc = "idle"
    /\ ticks < MaxTicks
    /\ tick_start' = [segments |-> segments, timestamp |-> timestamp]
    /\ segments' = [ e \in DOMAIN segments |->
                       step_segment(segments[e], default_env, timestamp, simulation_step) ]
    /\ coupling_start' = segments'
    /\ pc' = "junctions"
    /\ UNCHANGED <<source, fetches, next_entity, junctions, synapses, stimulations,
                   timestamp, simulation_step, ticks, loads, skipped, failure, gateVars, cellVars, runnerVars, unitVars>>

\* step_biophysics, the loop over junctions_query
ApplyJunctions ==
    /\ pc = "junctions"
    /\ LET result == junction_loop(segments, junctions, simulation_step)
       IN  /\ segments' = result.segs
           /\ pc' = IF result.ok THEN "synapses" ELSE "panicked"
           /\ failure' = IF result.ok THEN failure ELSE "tick"
    /\ UNCHANGED <<source, fetches, next_entity, junctions, synapses, stimulations,
                   timestamp, simulation_step, ticks, loads, tick_start,
                   coupling_start, skipped, gateVars, cellVars, runnerVars, unitVars>>

\* step_biophysics, the loop over synapses_query
ApplySynapses ==
    /\ pc = "synapses"
    /\ LET result == synapse_loop(segments, synapses, 1, simulation_step)
       IN  /\ segments' = result.segs
           /\ synapses' = result.syns
           /\ skipped' = (skipped \/ result.skipped)
    /\ pc' = "time"
    /\ UNCHANGED <<source, fetches, next_entity, junctions, stimulations, timestamp,
                   simulation_step, ticks, loads, tick_start, coupling_start,
                   failure, gateVars, cellVars, runnerVars, unitVars>>

\* step_biophysics, its last statement
AdvanceTime ==
    /\ pc = "time"
    /\ timestamp' = timestamp + simulation_step
    /\ ticks' = ticks + 1
    /\ pc' = "idle"
    /\ UNCHANGED <<source, fetches, next_entity, segments, junctions, synapses,
                   stimulations, simulation_step, loads, tick_start, coupling_start,
                   skipped, failure, gateVars, cellVars, runnerVars, unitVars>>

Next ==
    \/ LoadScene
    \/ FetchError
    \/ HandleLoadedNeuron
    \/ AddStimulation
    \/ IntegrateSegments
    \/ ApplyJunctions
    \/ ApplySynapses
    \/ AdvanceTime

Spec == Init /\ [][Next]_vars

----------------------------------------------------------------------------
(* The tick specification: one scene has been loaded and spawned, and       *)
(* step_biophysics runs tick after tick while segments are clicked.         *)

\* the world after the first scene was spawned without a panic
InitSpawned ==
    /\ source \in { scene \in Scenes : ~ spawn_panics(scene) }
    /\ simulation_step \in SimulationSteps
    /\ pc = "idle"
    /\ fetches = 0
    /\ next_entity = Len(source.segments) + 1
    /\ segments = spawn_segments(source.segments, 0)
    /\ \E order \in Orders(Len(source.segments)) :
          junctions = spawn_junctions(source.segments, order, 0)
    /\ synapses = spawn_synapses(source, 0)
    /\ stimulations = << >>
    /\ timestamp = 0
    /\ ticks = 0
    /\ loads = 1
    /\ tick_start = [segments |-> << >>, timestamp |-> 0]
    /\ coupling_start = << >>
    /\ skipped = FALSE
    /\ failure = "none"
    /\ GateAtRest
    /\ SegmentAtRest
    /\ RunnerAtRest
    /\ UnitsAtRest

NextTick ==
    \/ AddStimulation
    \/ IntegrateSegments
    \/ ApplyJunctions
    \/ ApplySynapses
    \/ AdvanceTime

SpecTick == InitSpawned /\ [][NextTick]_vars

----------------------------------------------------------------------------
(* The stimulation specification: a neuron of one segment is spawned, the   *)
(* stimulation panel is edited, stimulations are added to the segment and   *)
(* deleted, and step_biophysics runs tick after tick.                       *)

MaxMarkers == 2

\* the envelopes the three time sliders are set to: period, onset and offset
\* are set independently of each other
Envelopes ==
    { [period |-> 4, onset |-> 0, offset |-> 2],
      [period |-> 4, onset |-> 1, offset |-> 4],
      [period |-> 3, onset |-> 1, offset |-> 2],
      [period |-> 4, onset |-> 2, offset |-> 2],
      [period |-> 4, onset |-> 3, offset |-> 1] }

\* the square waves the two current sliders are set to
SquareWaves ==
    { [shape |-> "SquareWave", on_current |-> on, off_current |-> off] :
        on \in {6, 12}, off \in {-2} }

Stimulators ==
    { [envelope |-> e, current_shape |-> c] : e \in Envelopes, c \in SquareWaves }

\* run_gui with no selected stimulator: Stimulator::widget on the resource;
\* the systems of a frame run one after the other
EditStimulator ==
    /\ pc = "idle"
    /\ new_stimulators' \in Stimulators \ {new_stimulators}
    /\ UNCHANGED <<gateVars, cellVars, worldVars, historyVars, runnerVars,
                   ringVars, swcVars, oscilloscopeVars>>

\* a click on a segment while the stimulation specification runs
AddStimulationMarker == add_stimulation(MaxMarkers)

\* a sequence without its i-th element
Without(seq, i) == SubSeq(seq, 1, i - 1) \o SubSeq(seq, i + 1, Len(seq))

\* delete_stimulations on the clicked marker: the Stimulator is removed from
\* the marker's segment when the segment carries one, and the marker is
\* despawned
delete_stimulations(marker) ==
    LET stimulation_segment == stimulations[marker].stimulation_segment
    IN  /\ segments' =
              IF stimulation_segment \in DOMAIN segments
                 /\ segments[stimulation_segment].stimulator # << >>
              THEN [segments EXCEPT ![stimulation_segment].stimulator = << >>]
              ELSE segments
        /\ stimulations' = Without(stimulations, marker)

\* a click on a Stimulation marker
DeleteStimulations ==
    /\ pc = "idle"
    /\ \E marker \in DOMAIN stimulations : delete_stimulations(marker)
    /\ UNCHANGED <<pc, source, fetches, next_entity, junctions, synapses, timestamp,
                   simulation_step, historyVars, gateVars, cellVars, runnerVars, unitVars>>

InitStimulated ==
    /\ InitSpawned
    /\ Len(source.segments) = 1

NextStimulated ==
    \/ EditStimulator
    \/ AddStimulationMarker
    \/ DeleteStimulations
    \/ IntegrateSegments
    \/ ApplyJunctions
    \/ ApplySynapses
    \/ AdvanceTime

SpecStimulated == InitStimulated /\ [][NextStimulated]_vars

----------------------------------------------------------------------------
(* The segment specification: a plain Segment is constructed and then        *)
(* stepped by its caller with one Interval, body temperature and the        *)
(* interstitial fluid; between steps the caller may set its potential.      *)

MaxResets == 2

InitSegment ==
    /\ cell \in Segments
    /\ cellDt \in SegmentIntervals
    /\ cellBuilt = cell
    /\ cellResets = 0
    /\ GateAtRest
    /\ WorldAtRest
    /\ RunnerAtRest
    /\ UnitsAtRest

\* segment.step(&BODY_TEMPERATURE, &INTERSTICIAL_FLUID, &interval)
StepSegment ==
    /\ cell' = Segment_step(cell, BODY_TEMPERATURE, INTERSTICIAL_FLUID, cellDt)
    /\ UNCHANGED <<cellDt, cellBuilt, cellResets, gateVars, worldVars, historyVars, runnerVars, unitVars>>

\* segment.membrane_potential = MilliVolts(v)
ResetSegmentPotential ==
    /\ cellResets < MaxResets
    /\ \E v \in SegmentVoltages :
          cell' = [ cell EXCEPT !.membrane_potential = v * VoltScale, !.finite = TRUE ]
    /\ cellResets' = cellResets + 1
    /\ UNCHANGED <<cellDt, cellBuilt, gateVars, worldVars, historyVars, runnerVars, unitVars>>

NextSegment == StepSegment \/ ResetSegmentPotential

SpecSegment == InitSegment /\ [][NextSegment]_vars

----------------------------------------------------------------------------
(* The passive specification: the segment specification for the segments    *)
(* without gates, whose caller keeps stepping them.                         *)

\* simple_leak, and passive_channels with the conductances of its test and
\* with a tenth of them
PassiveSegments ==
    { simple_leak, passive_channels(30, 20, 10), passive_channels(3, 2, 1) }

InitPassive == InitSegment /\ cell \in PassiveSegments

SpecPassiveFair == InitPassive /\ [][NextSegment]_vars /\ WF_vars(StepSegment)

----------------------------------------------------------------------------
(* The runner specification: the three tasks of the toy-runner around the   *)
(* Mutex<State>.  A task takes the mutex only when it is free; what a task  *)
(* does under the mutex is split at its statements, so that a second task   *)
(* entering would be seen.  The wall clock and the sleeps are left to the   *)
(* scheduler: a sleeping task may wake at any time.                         *)

MaxBatches == 2

\* SetInterval(i), in units of 10 us
RunnerIntervals == {2, 3}

\* SetTimeCoefficient(c), in hundredths
RunnerCoefficients == {2, 5}

\* reuron_commands::Command as the handler parses it
Commands ==
    { [tag |-> "SetTimeCoefficient", value |-> c] : c \in RunnerCoefficients }
      \cup { [tag |-> "SetInterval", value |-> i] : i \in RunnerIntervals }
      \cup { [tag |-> "AddNeuron", value |-> 0] }

InitRunner ==
    /\ RunnerAtRest
    /\ GateAtRest
    /\ SegmentAtRest
    /\ WorldAtRest
    /\ UnitsAtRest

\* the run task is between its lock and the end of the block holding it
InBatch == runPc = "batch"

\* run: state.lock(), batches += 1, let interval = simulation_interval.clone()
RunLock ==
    /\ runPc = "lock"
    /\ mutex = "free"
    /\ state.batches < MaxBatches
    /\ mutex' = "run"
    /\ state' = [state EXCEPT !.batches = @ + 1]
    /\ run_interval' = state.simulation_interval
    /\ batch' = [ time |-> state.time,
                  simulation_interval |-> state.simulation_interval,
                  time_coefficient |-> state.time_coefficient,
                  used |-> << >> ]
    /\ runPc' = "batch"
    /\ UNCHANGED <<watchPc, displayed, handlerPc, command, interleaved,
                   gateVars, cellVars, worldVars, historyVars, unitVars>>

\* run: one turn of the loop over 0..simulation_batch_size: the time advances
\* by state.simulation_interval and the neuron is stepped with the local copy
RunStep ==
    /\ runPc = "batch"
    /\ Len(batch.used) < state.simulation_batch_size
    /\ state' = [state EXCEPT !.steps = @ + 1,
                              !.time = @ + state.simulation_interval]
    /\ batch' = [batch EXCEPT !.used = Append(@, run_interval)]
    /\ UNCHANGED <<mutex, runPc, run_interval, watchPc, displayed, handlerPc,
                   command, interleaved, gateVars, cellVars, worldVars, historyVars, unitVars>>

\* run: the loop is over, the block ends and drops the guard
RunUnlock ==
    /\ runPc = "batch"
    /\ Len(batch.used) >= state.simulation_batch_size
    /\ mutex' = "free"
    /\ runPc' = "sleep"
    /\ UNCHANGED <<state, run_interval, watchPc, displayed, handlerPc, command,
                   batch, interleaved, gateVars, cellVars, worldVars, historyVars, unitVars>>

\* run: the sleep is over, or there was none
RunWake ==
    /\ runPc = "sleep"
    /\ runPc' = "lock"
    /\ UNCHANGED <<mutex, state, run_interval, watchPc, displayed, handlerPc,
                   command, batch, interleaved, gateVars, cellVars, worldVars,
                   historyVars, unitVars>>

\* watch: state.lock()
WatchLock ==
    /\ watchPc = "lock"
    /\ mutex = "free"
    /\ mutex' = "watch"
    /\ watchPc' = "display"
    /\ UNCHANGED <<state, runPc, run_interval, displayed, handlerPc, command,
                   batch, interleaved, gateVars, cellVars, worldVars, historyVars, unitVars>>

\* watch: println! of the state, then the block ends and drops the guard
WatchDisplay ==
    /\ watchPc = "display"
    /\ displayed' = state.time
    /\ interleaved' = (interleaved \/ InBatch)
    /\ mutex' = "free"
    /\ watchPc' = "sleep"
    /\ UNCHANGED <<state, runPc, run_interval, handlerPc, command, batch,
                   gateVars, cellVars, worldVars, historyVars, unitVars>>

\* watch: the sleep is over, or there was none
WatchWake ==
    /\ watchPc = "sleep"
    /\ watchPc' = "lock"
    /\ UNCHANGED <<mutex, state, runPc, run_interval, displayed, handlerPc,
                   command, batch, interleaved, gateVars, cellVars, worldVars,
                   historyVars, unitVars>>

\* handle_dhall_command: a request body is parsed into a Command
ReceiveCommand ==
    /\ handlerPc = "idle"
    /\ command' \in Commands
    /\ handlerPc' = "lock"
    /\ UNCHANGED <<mutex, state, runPc, run_interval, watchPc, displayed, batch,
                   interleaved, gateVars, cellVars, worldVars, historyVars, unitVars>>

\* handle_dhall_command that goes on to the State without taking the mutex
HandlerLock_without_mutex ==
    /\ handlerPc = "lock"
    /\ handlerPc' = "write"
    /\ UNCHANGED <<mutex, state, runPc, run_interval, watchPc, displayed, command,
                   batch, interleaved, gateVars, cellVars, worldVars, historyVars, unitVars>>

\* handle_dhall_command: state.lock()
HandlerLock ==
    /\ handlerPc = "lock"
    /\ mutex = "free"
    /\ mutex' = "handler"
    /\ handlerPc' = "write"
    /\ UNCHANGED <<state, runPc, run_interval, watchPc, displayed, command,
                   batch, interleaved, gateVars, cellVars, worldVars, historyVars, unitVars>>

\* handle_dhall_command: the match on the command, then the block ends and
\* drops the guard
HandlerWrite ==
    /\ handlerPc = "write"
    /\ state' = IF command.tag = "SetTimeCoefficient"
                THEN [state EXCEPT !.time_coefficient = command.value]
                ELSE IF command.tag = "SetInterval"
                THEN [state EXCEPT !.simulation_interval = command.value]
                ELSE state
    /\ interleaved' = (interleaved \/ (InBatch /\ command.tag # "AddNeuron"))
    /\ mutex' = "free"
    /\ command' = NoCommand
    /\ handlerPc' = "idle"
    /\ UNCHANGED <<runPc, run_interval, watchPc, displayed, batch,
                   gateVars, cellVars, worldVars, historyVars, unitVars>>

NextRunner ==
    \/ RunLock
    \/ RunStep
    \/ RunUnlock
    \/ RunWake
    \/ WatchLock
    \/ WatchDisplay
    \/ WatchWake
    \/ ReceiveCommand
    \/ HandlerLock
    \/ HandlerWrite

SpecRunner == InitRunner /\ [][NextRunner]_vars

----------------------------------------------------------------------------
(* The ring specification: a RingBuffer of some size is created and written *)
(* to; a write that indexes past the end of inner panics.                   *)

MaxWrites == 5

\* the sizes RingBuffer::new is called with
RingSizes == 0..3

\* the default RingBuffer::new fills the buffer with
RingDefault == 0

\* the values written
RingValues == {1, 2, 3}

InitRing ==
    /\ \E size \in RingSizes : ring_buffer = RingBuffer_new(size, RingDefault)
    /\ writes = << >>
    /\ ring_panicked = FALSE
    /\ SwcAtRest
    /\ WidgetAtRest
    /\ OscilloscopeAtRest
    /\ GateAtRest
    /\ SegmentAtRest
    /\ WorldAtRest
    /\ RunnerAtRest

\* b.write(value)
WriteRing ==
    /\ ~ ring_panicked
    /\ Len(writes) < MaxWrites
    /\ \E value \in RingValues :
          /\ writes' = Append(writes, value)
          /\ IF write_panics(ring_buffer)
             THEN ring_panicked' = TRUE /\ UNCHANGED ring_buffer
             ELSE /\ ring_buffer' = RingBuffer_write(ring_buffer, value)
                  /\ UNCHANGED ring_panicked
    /\ UNCHANGED <<gateVars, cellVars, worldVars, historyVars, runnerVars, swcVars,
                   widgetVars, oscilloscopeVars>>

NextRing == WriteRing

SpecRing == InitRing /\ [][NextRing]_vars

----------------------------------------------------------------------------
(* The simplify specification: a neuron is given to simplify, which returns *)
(* the simplified neuron, panics or never returns.                          *)

\* the ids of the segments of the neurons given, in file order
SwcIds == { <<1, 2, 3>>, <<1, 2, 3, 4, 10>> }

\* the parents the segments name: none, an id of the neuron, or the id 0 that
\* no segment has
SwcNeurons(ids) ==
    { [ i \in DOMAIN ids |-> [id |-> ids[i], parent |-> parents[i]] ] :
        parents \in [ DOMAIN ids -> {-1, 0} \cup { ids[i] : i \in DOMAIN ids } ] }

InitSimplify ==
    /\ \E ids \in SwcIds : swc \in SwcNeurons(ids)
    /\ swc_loaded = swc
    /\ swc_outcome = "loaded"
    /\ RingAtRest
    /\ WidgetAtRest
    /\ OscilloscopeAtRest
    /\ GateAtRest
    /\ SegmentAtRest
    /\ WorldAtRest
    /\ RunnerAtRest

\* neuron.simplify()
Simplify ==
    /\ swc_outcome = "loaded"
    /\ LET result == simplify(swc)
       IN  /\ swc' = result.segments
           /\ swc_outcome' = result.outcome
    /\ UNCHANGED <<swc_loaded, gateVars, cellVars, worldVars, historyVars,
                   runnerVars, ringVars, widgetVars, oscilloscopeVars>>

NextSimplify == Simplify

SpecSimplify == InitSimplify /\ [][NextSimplify]_vars

----------------------------------------------------------------------------
(* gui/oscilloscope.rs: the oscilloscope sampled frame after frame and      *)
(* plotted by the panel.                                                    *)

MaxFrames == 6

\* the membrane voltages a source is read at
SampledVoltages == {-70, 20}

\* the modulus of usize arithmetic for the subtraction in Oscilloscope::plot,
\* scaled from 2^64: every modulus above N_SAMPLES + 1 plots the same lines
UsizeModulus == 2 ^ 16

\* step_oscilloscope_system: a changed step size resets the offset, the
\* buffers and the times; every source with a voltage is sampled at the
\* offset; the offset advances and wraps
step_oscilloscope_system(osc, simulation_step_seconds, voltage) ==
    LET changed == simulation_step_seconds # osc.last_known_simulation_step_seconds
        reset ==
            IF changed
            THEN [ osc EXCEPT
                     !.last_known_simulation_step_seconds = simulation_step_seconds,
                     !.write_offset = 0,
                     !.buffers = [ i \in 1..N_SOURCES |-> [ x \in 0..(N_SAMPLES - 1) |-> 0 ] ],
                     !.times = [ x \in 0..(N_SAMPLES - 1) |-> x * simulation_step_seconds ] ]
            ELSE osc
        sampled ==
            [ reset EXCEPT !.buffers =
                [ i \in 1..N_SOURCES |->
                    IF reset.sources[i]
                    THEN [ reset.buffers[i] EXCEPT ![reset.write_offset] = voltage ]
                    ELSE reset.buffers[i] ] ]
    IN  [ sampled EXCEPT !.write_offset =
            IF sampled.write_offset + 1 >= N_SAMPLES THEN 0 ELSE sampled.write_offset + 1 ]

\* Oscilloscope::plot: the outcomes of self.write_offset - 1 on a usize.  At
\* offset 0 a build with overflow checks panics and a build without them
\* wraps to the largest usize, and take() then yields the whole buffer
plot_outcomes(osc) ==
    IF osc.write_offset >= 1
    THEN { [ end |-> "plotted", line_before_break |-> osc.write_offset - 1,
             line_after_break |-> N_SAMPLES - osc.write_offset ] }
    ELSE { [ end |-> "panicked", line_before_break |-> 0, line_after_break |-> 0 ],
           [ end |-> "wrapped",
             line_before_break |->
                 IF (osc.write_offset - 1) % UsizeModulus < N_SAMPLES
                 THEN (osc.write_offset - 1) % UsizeModulus ELSE N_SAMPLES,
             line_after_break |-> N_SAMPLES - osc.write_offset ] }

InitOscilloscope ==
    /\ \E sources \in [ 1..N_SOURCES -> BOOLEAN ] :
          oscilloscope = Oscilloscope_init(sources)
    /\ frames = 0
    /\ plot_outcome = "none"
    /\ RingAtRest
    /\ SwcAtRest
    /\ WidgetAtRest
    /\ GateAtRest
    /\ SegmentAtRest
    /\ WorldAtRest
    /\ RunnerAtRest

\* a frame of the simulation: step_oscilloscope_system
StepOscilloscope ==
    /\ plot_outcome # "panicked"
    /\ frames < MaxFrames
    /\ \E simulation_step_seconds \in SimulationSteps, voltage \in SampledVoltages :
          oscilloscope' = step_oscilloscope_system(oscilloscope, simulation_step_seconds,
                                                   voltage)
    /\ frames' = frames + 1
    /\ UNCHANGED <<plot_outcome, gateVars, cellVars, worldVars, historyVars, runnerVars,
                   ringVars, swcVars, widgetVars>>

\* run_gui with the oscilloscope header open: oscilloscope.plot(ui)
PlotOscilloscope ==
    /\ plot_outcome # "panicked"
    /\ \E outcome \in plot_outcomes(oscilloscope) : plot_outcome' = outcome.end
    /\ UNCHANGED <<oscilloscope, frames, gateVars, cellVars, worldVars, historyVars,
                   runnerVars, ringVars, swcVars, widgetVars>>

NextOscilloscope == StepOscilloscope \/ PlotOscilloscope

SpecOscilloscope == InitOscilloscope /\ [][NextOscilloscope]_vars

----------------------------------------------------------------------------
(* Claims about the tick *)

\* the phase changes of step_biophysics, and the construction panic
PhaseChanges ==
    { <<"idle", "junctions">>, <<"junctions", "synapses">>, <<"synapses", "time">>,
      <<"time", "idle">>, <<"junctions", "panicked">>, <<"idle", "panicked">> }

\* the voltages of the segments
Voltages(segs) == [ e \in DOMAIN segs |-> segs[e].membrane_voltage ]

\* the membranes (channels and gates) of the segments
MembranesOf(segs) == [ e \in DOMAIN segs |-> segs[e].membrane ]

\* C1: a tick integrates the segments, then applies the junctions, then the
\* synapses, and only then advances the timestamp by simulation_step, once:
\* the timestamp is the number of completed ticks times simulation_step, it
\* moves only in the last phase, the gates move only in the first phase, the
\* synapse state only in the synapse phase, and the phases follow in order.
C1_PhasesInOrderThenTimestamp ==
    /\ [](timestamp = ticks * simulation_step)
    /\ [][ /\ pc' # pc => <<pc, pc'>> \in PhaseChanges
           /\ timestamp' # timestamp =>
                 pc = "time" /\ pc' = "idle" /\ timestamp' = timestamp + simulation_step
           /\ pc # "idle" => MembranesOf(segments') = MembranesOf(segments)
           /\ pc \in {"junctions", "time"} => synapses' = synapses
           /\ pc = "time" => segments' = segments ]_vars

\* C1, its case: all ticks completed on a neuron with junctions and a synapse
C1_Witness ==
    /\ pc = "idle"
    /\ ticks = MaxTicks
    /\ timestamp = MaxTicks * simulation_step
    /\ Len(junctions) > 0
    /\ Len(synapses) > 0
    /\ Voltages(segments) # Voltages(tick_start.segments)

\* the coupling phase as the specification words it: every junction's current
\* is computed from the voltages in snapshot, and added to the running segments
RECURSIVE snapshot_coupling(_, _, _, _)
snapshot_coupling(snapshot, segs, js, interval_seconds) ==
    IF js = << >> THEN segs
    ELSE LET moved == apply_junction(snapshot, Head(js), interval_seconds)
             first == Head(js).first_segment
             second == Head(js).second_segment
         IN  snapshot_coupling(snapshot,
                 [ segs EXCEPT
                     ![first].membrane_voltage =
                         @ + moved[first].membrane_voltage
                           - snapshot[first].membrane_voltage,
                     ![second].membrane_voltage =
                         @ + moved[second].membrane_voltage
                           - snapshot[second].membrane_voltage ],
                 Tail(js), interval_seconds)

\* C2: after the junction phase the voltages are those obtained with every
\* junction's current computed from the voltages at the start of the phase.
C2_JunctionsReadCouplingStart ==
    pc = "synapses" =>
        Voltages(segments) =
            Voltages(snapshot_coupling(coupling_start, coupling_start, junctions,
                                       simulation_step))

\* C3: the voltages after the junction phase are the same for every order in
\* which the junctions could have been iterated.
C3_JunctionOrderIrrelevant ==
    pc = "synapses" =>
        \A o \in Orders(Len(junctions)) :
            Voltages(junction_loop(coupling_start,
                                   [ i \in 1..Len(junctions) |-> junctions[o[i]] ],
                                   simulation_step).segs)
              = Voltages(segments)

\* the charge on the membranes: the sum of capacitance * voltage
RECURSIVE Charge(_, _)
Charge(segs, es) ==
    IF es = {} THEN 0
    ELSE LET e == CHOOSE x \in es : TRUE
         IN  segs[e].membrane.capacitance * surface_area(segs[e].geometry)
               * segs[e].membrane_voltage
             + Charge(segs, es \ {e})

\* the charge the rounding of the stored voltages can account for: each of the
\* two quotients of a junction is rounded by less than one voltage unit
RECURSIVE Rounding(_, _)
Rounding(segs, js) ==
    IF js = << >> THEN 0
    ELSE LET s1 == segs[Head(js).first_segment]
             s2 == segs[Head(js).second_segment]
         IN  (s1.membrane.capacitance * surface_area(s1.geometry) - 1)
               + (s2.membrane.capacitance * surface_area(s2.geometry) - 1)
               + Rounding(segs, Tail(js))

\* C4: the junction phase conserves charge: the sum of capacitance * voltage
\* over all segments is the same before and after it, up to the rounding of
\* the stored voltages.
C4_JunctionsConserveCharge ==
    pc = "synapses" =>
        Abs(Charge(segments, DOMAIN segments)
              - Charge(coupling_start, DOMAIN coupling_start))
          <= Rounding(segments, junctions)

\* C4, its case: a junction phase that moved several units of charge between
\* segments of different capacitance
C4_Witness ==
    /\ pc = "synapses"
    /\ \E i \in 1..Len(junctions) :
          LET a == junctions[i].first_segment
              b == junctions[i].second_segment
          IN  /\ segments[a].membrane.capacitance # segments[b].membrane.capacitance
              /\ Abs(segments[a].membrane_voltage
                       - coupling_start[a].membrane_voltage)
                     * segments[a].membrane.capacitance
                   > Rounding(segments, junctions)

\* C5: in the integration of a segment every gate is stepped with the voltage
\* already moved by the channel currents of this tick, not with the voltage
\* the segment had before.
C5_GatesSteppedWithUpdatedVoltage ==
    pc = "junctions" =>
        \A e \in DOMAIN segments :
            segments[e].membrane =
                step_channels(tick_start.segments[e].membrane,
                              channel_voltage(tick_start.segments[e], default_env,
                                              simulation_step),
                              simulation_step)

\* C5, its case: a segment whose gates would have moved differently had they
\* been stepped with the voltage before the update
C5_Witness ==
    /\ pc = "junctions"
    /\ \E e \in DOMAIN segments :
          segments[e].membrane #
              step_channels(tick_start.segments[e].membrane,
                            tick_start.segments[e].membrane_voltage, simulation_step)

\* C25: the per-segment phase of step_biophysics is Segment::step: from the
\* segment, injected current, environment and interval a tick started with,
\* both leave the same membrane voltage and the same gate magnitudes; the
\* gates are stepped with the voltage that holds the injected current.
C25_BiophysicsIsSegmentStep ==
    pc = "junctions" =>
        \A e \in DOMAIN segments :
            LET stepped == Segment_step_on_components(tick_start.segments[e], default_env,
                                                      tick_start.timestamp, simulation_step)
            IN  /\ segments[e].membrane_voltage = stepped.membrane_voltage
                /\ segments[e].membrane = stepped.membrane

\* C6: both endpoints of every Junction and of every Synapse are live segments.
C6_EndpointsLive ==
    /\ \A i \in 1..Len(junctions) :
          {junctions[i].first_segment, junctions[i].second_segment} \subseteq DOMAIN segments
    /\ \A i \in 1..Len(synapses) :
          {synapses[i].pre_segment, synapses[i].post_segment} \subseteq DOMAIN segments

\* C7: a junction or synapse with an invalid endpoint is refused when the scene
\* is constructed: no tick panics on one, and no tick skips one.
C7_InvalidEndpointsRefusedAtConstruction ==
    failure # "tick" /\ ~ skipped

\* C8: a tick that fails has changed no voltage, no gate and not the timestamp.
C8_FailedTickChangesNothing ==
    failure = "tick" =>
        segments = tick_start.segments /\ timestamp = tick_start.timestamp

\* the current density of one channel as the specification words it: the sum
\* over the four ions of selectivity * conductance coefficient * (V - E_ion),
\* each ion with its own reversal potential, times the peak conductance
ion_current_density(mc, internal_solution, external_solution, temperature, v) ==
    LET coefficient == conductance_coefficient(mc.channel)
        selectivity == mc.channel.ion_selectivity
    IN  ( selectivity.k * coefficient
            * (v - k_reversal(internal_solution, external_solution, temperature))
        + selectivity.na * coefficient
            * (v - na_reversal(internal_solution, external_solution, temperature))
        + selectivity.ca * coefficient
            * (v - ca_reversal(internal_solution, external_solution, temperature))
        + selectivity.cl * coefficient
            * (v - cl_reversal(internal_solution, external_solution, temperature)) )
        * mc.siemens_per_square_cm

\* ion_current_density summed over the channels from index i on
RECURSIVE membrane_current_density(_, _, _, _, _, _)
membrane_current_density(channels, i, internal_solution, external_solution, temperature, v) ==
    IF i > Len(channels) THEN 0
    ELSE ion_current_density(channels[i], internal_solution, external_solution,
                             temperature, v)
         + membrane_current_density(channels, i + 1, internal_solution,
                                    external_solution, temperature, v)

\* C15: on both call paths that compute a channel current, the call of
\* step_biophysics for a segment and the call of SynapseMembranes::current
\* for a receptor, the reversal potentials passed by position pair every ion's
\* selectivity with the driving force of that ion: the current the call
\* returns is the sum over the ions of selectivity * coefficient * (V - E_ion).
C15_SelectivityPairedWithOwnReversal ==
    /\ \A e \in DOMAIN segments :
          LET seg == segments[e]
              external == default_env.extracellular_solution
              temperature == default_env.temperature
          IN  current_per_square_cm(seg.membrane,
                  k_reversal(seg.solution, external, temperature),
                  na_reversal(seg.solution, external, temperature),
                  cl_reversal(seg.solution, external, temperature),
                  ca_reversal(seg.solution, external, temperature),
                  seg.membrane_voltage)
              = membrane_current_density(seg.membrane.membrane_channels, 1,
                    seg.solution, external, temperature, seg.membrane_voltage)
    /\ \A i \in 1..Len(synapses) :
          synapses[i].post_segment \in DOMAIN segments =>
              LET sm == synapses[i].synapse_membranes
                  post == segments[synapses[i].post_segment]
                  receptor == sm.postsynaptic_receptor.membrane_channel
              IN  channel_current_per_cm(receptor,
                      k_reversal(post.solution, sm.cleft_solution, BODY_TEMPERATURE),
                      na_reversal(post.solution, sm.cleft_solution, BODY_TEMPERATURE),
                      cl_reversal(post.solution, sm.cleft_solution, BODY_TEMPERATURE),
                      ca_reversal(post.solution, sm.cleft_solution, BODY_TEMPERATURE),
                      post.membrane_voltage)
                  = ion_current_density(receptor, post.solution, sm.cleft_solution,
                                        BODY_TEMPERATURE, post.membrane_voltage)

\* a synapse without its transmitter concentration and without the magnitudes
\* of its receptor's gates
synapse_frame(syn) ==
    [ syn EXCEPT
        !.synapse_membranes.glutamate = 0,
        !.synapse_membranes.postsynaptic_receptor.membrane_channel.channel.activation =
            IF @ = NoGate THEN NoGate
            ELSE << [ @[1] EXCEPT !.magnitude = 0, !.finite = TRUE ] >>,
        !.synapse_membranes.postsynaptic_receptor.membrane_channel.channel.inactivation =
            IF @ = NoGate THEN NoGate
            ELSE << [ @[1] EXCEPT !.magnitude = 0, !.finite = TRUE ] >> ]

\* the segments a coupled synapse ends on
PostSegments(segs, syns) ==
    { syns[i].post_segment :
        i \in { j \in DOMAIN syns :
                  get_many_mut_ok(segs, syns[j].pre_segment, syns[j].post_segment) } }

\* C17: the synapse phase changes the transmitter concentrations, the
\* receptor channels' gate magnitudes and the postsynaptic potentials and
\* nothing else: the cleft solution, the pump's parameters, the receptor's
\* sensitivity and peak conductance, the surface area and the ends of every
\* synapse stay, and so does every segment but for the voltage of the
\* segments a coupled synapse ends on (the presynaptic voltage included).
C17_SynapseCouplingFrame ==
    [][ pc = "synapses" =>
          /\ DOMAIN synapses' = DOMAIN synapses
          /\ \A i \in DOMAIN synapses :
                synapse_frame(synapses'[i]) = synapse_frame(synapses[i])
          /\ DOMAIN segments' = DOMAIN segments
          /\ \A e \in DOMAIN segments :
                /\ [segments'[e] EXCEPT !.membrane_voltage = 0]
                     = [segments[e] EXCEPT !.membrane_voltage = 0]
                /\ e \notin PostSegments(segments, synapses)
                     => segments'[e].membrane_voltage = segments[e].membrane_voltage
    ]_vars

\* C17, its case: a coupling has moved the transmitter concentration of a
\* synapse between two different segments
C17_Witness ==
    /\ pc = "time"
    /\ \E i \in DOMAIN synapses :
          /\ get_many_mut_ok(segments, synapses[i].pre_segment, synapses[i].post_segment)
          /\ synapses[i].synapse_membranes.glutamate # excitatory_synapse.glutamate

----------------------------------------------------------------------------
(* Claims about the gate *)

\* the gate's magnitude is within Epsilon of its steady state at the held voltage
GateSettled ==
    /\ gate.finite
    /\ Abs(gate.magnitude
           - steady_state(gate.parameters.steady_state_magnitude, gateV)) <= Epsilon

\* C9: after build and any sequence of steps, with any membrane potentials
\* and any positive interval, the magnitude of the gate is within [0, 1].
C9_MagnitudeInUnitInterval ==
    gate.finite /\ 0 <= gate.magnitude /\ gate.magnitude <= MagScale

\* C10: a gate stepped again and again at a membrane potential that is held
\* constant from some point on is eventually within Epsilon of its steady
\* state there, and stays there.
C10_ConvergesAtConstantVoltage ==
    \A v \in GateVoltages :
        (<>[](gateV = v)) => <>[](gateV = v /\ GateSettled)

----------------------------------------------------------------------------
(* Claims about the segment *)

\* the chloride reversal potential of the example cytoplasm, in potential units
E_Cl == VoltScale * cl_reversal(EXAMPLE_CYTOPLASM, INTERSTICIAL_FLUID, BODY_TEMPERATURE)

\* the segment's potential is finite and less than 1 mV from E_Cl
LeakSettled ==
    cell.finite /\ Abs(cell.membrane_potential - E_Cl) < VoltScale

GhkTolerance == 2

\* the sum of the peak conductances of a membrane's channels from index i on
RECURSIVE TotalConductance(_, _)
TotalConductance(channels, i) ==
    IF i > Len(channels) THEN 0
    ELSE channels[i].siemens_per_square_cm + TotalConductance(channels, i + 1)

\* the reversal potential of the one ion a passive channel lets through, in
\* potential units, for the example cytoplasm in the interstitial fluid
ReversalOf(ion_selectivity) ==
    VoltScale *
      ( IF ion_selectivity.k > 0
        THEN k_reversal(EXAMPLE_CYTOPLASM, INTERSTICIAL_FLUID, BODY_TEMPERATURE)
        ELSE IF ion_selectivity.na > 0
        THEN na_reversal(EXAMPLE_CYTOPLASM, INTERSTICIAL_FLUID, BODY_TEMPERATURE)
        ELSE cl_reversal(EXAMPLE_CYTOPLASM, INTERSTICIAL_FLUID, BODY_TEMPERATURE) )

\* E_k * g_k + E_na * g_na + E_cl * g_cl over the channels from index i on
RECURSIVE WeightedReversals(_, _)
WeightedReversals(channels, i) ==
    IF i > Len(channels) THEN 0
    ELSE ReversalOf(channels[i].channel.ion_selectivity)
           * channels[i].siemens_per_square_cm
         + WeightedReversals(channels, i + 1)

\* the segment's potential is finite and within GhkTolerance of the
\* conductance-weighted average of the reversal potentials
GhkSettled ==
    LET channels == cell.membrane.membrane_channels
        g_total == TotalConductance(channels, 1)
    IN  /\ cell.finite
        /\ Abs(g_total * cell.membrane_potential - WeightedReversals(channels, 1))
             <= GhkTolerance * g_total

\* C12: a segment built by passive_channels (ungated Na, K and Cl channels, no
\* injected current), stepped again and again, is eventually within the
\* tolerance of the conductance-weighted average of the three reversal
\* potentials, and stays there.
C12_RestingPotentialFollowsGhk ==
    (Len(cellBuilt.membrane.membrane_channels) = 3) => <>[]GhkSettled

\* a gate without its magnitude
gate_frame(g) ==
    IF g = NoGate THEN NoGate
    ELSE << [ g[1] EXCEPT !.magnitude = 0, !.finite = TRUE ] >>

\* a segment without its membrane potential and without the magnitudes of its
\* gates: the capacitance, the channels in their order with their peak
\* conductances, selectivities and gate parameters, the geometry, the
\* intracellular solution and the currents
segment_frame(seg) ==
    [ seg EXCEPT
        !.membrane_potential = 0,
        !.finite = TRUE,
        !.membrane.membrane_channels =
            [ i \in DOMAIN @ |->
                [ @[i] EXCEPT !.channel.activation = gate_frame(@),
                              !.channel.inactivation = gate_frame(@) ] ] ]

\* C16: Segment::step changes the segment's membrane potential and the
\* magnitudes of its gates and nothing else: after any sequence of steps the
\* capacitance, the channels (their number, order, peak conductances,
\* selectivities and gate parameters), the geometry, the intracellular
\* solution and the injected current are those of the construction.
C16_StepChangesPotentialAndGatesOnly ==
    segment_frame(cell) = segment_frame(cellBuilt)

\* C16, its case: a segment with an injected current that was stepped (only
\* a step moves a gate), and whose potential and gate have both moved
C16_Witness ==
    /\ cell.input_current # 0
    /\ cell.finite
    /\ cell.membrane_potential # cellBuilt.membrane_potential
    /\ cell.membrane.membrane_channels[1].channel.activation # NoGate
    /\ cell.membrane.membrane_channels[1].channel.activation[1].magnitude
         # cellBuilt.membrane.membrane_channels[1].channel.activation[1].magnitude

----------------------------------------------------------------------------
(* Claims about the laws of a gate *)

\* C23: a step of a gate whose time constant is Instantaneous leaves the
\* magnitude at the steady state of the voltage it was stepped at, whatever
\* the magnitude before and whatever the interval; a step of a gate with the
\* Sigmoid or LinearExp law adds (steady state - magnitude) / tau * interval
\* to the magnitude (as long as the sum is a finite number).
C23_InstantaneousAssignsSteadyState ==
    [][ gateV' = gateV =>
          LET v_inf == steady_state(gate.parameters.steady_state_magnitude, gateV)
              moved == gate.magnitude
                         + Quot((v_inf - gate.magnitude) * gateDt,
                                tau(gate.parameters.time_constant, gateV)[1])
          IN  IF gate.parameters.time_constant.law = "Instantaneous"
              THEN gate'.finite /\ gate'.magnitude = v_inf
              ELSE (gate.finite /\ Abs(moved) <= MagnitudeLimit)
                     => gate'.finite /\ gate'.magnitude = moved
    ]_vars

\* C23, its case: an Instantaneous gate that was built at another voltage
\* and stepped with the longest interval stands at the steady state
C23_Witness ==
    /\ gate.parameters.time_constant.law = "Instantaneous"
    /\ gateHistory = "moved"
    /\ gateDt = MaxInterval
    /\ gate.magnitude = steady_state(gate.parameters.steady_state_magnitude, gateV)

\* what one gate of a channel contributes to its coefficient: 1.0 when the
\* gate is absent, else its magnitude to the power of its number of gates
RECURSIVE Power(_, _)
Power(magnitude, gates) ==
    IF gates = 0 THEN MagScale
    ELSE Quot(magnitude * Power(magnitude, gates - 1), MagScale)

Contribution(maybe_gate) ==
    IF maybe_gate = NoGate THEN MagScale
    ELSE Power(maybe_gate[1].magnitude, maybe_gate[1].parameters.gates)

\* a solution one of whose concentrations is not positive: its reversal
\* potential is the logarithm of zero, of a negative number or of a quotient
\* by zero
degenerate_solution(solution) ==
    \/ solution.k_concentration <= 0
    \/ solution.na_concentration <= 0
    \/ solution.cl_concentration <= 0
    \/ solution.ca_concentration <= 0

\* a selectivity for one ion only
SingleIon(ion_selectivity) ==
    /\ ion_selectivity.finite
    /\ Cardinality({ ion \in {"k", "na", "ca", "cl"} : ion_selectivity[ion] > 0 }) = 1

\* the potentials a channel's current is read at: every reversal potential of
\* the example cytoplasm in the interstitial fluid, the potentials one unit
\* off them, and the potential of the segment
Probes ==
    LET reversals ==
            { VoltScale * k_reversal(EXAMPLE_CYTOPLASM, INTERSTICIAL_FLUID, BODY_TEMPERATURE),
              VoltScale * na_reversal(EXAMPLE_CYTOPLASM, INTERSTICIAL_FLUID, BODY_TEMPERATURE),
              VoltScale * cl_reversal(EXAMPLE_CYTOPLASM, INTERSTICIAL_FLUID, BODY_TEMPERATURE) }
    IN  reversals \cup { e + 1 : e \in reversals } \cup { e - 1 : e \in reversals }
          \cup { cell.membrane_potential }

\* the current of one membrane channel of the crate at a potential
probe_current(mc, potential) ==
    Membrane_current_per_square_cm(
        [membrane_channels |-> << mc >>, capacitance |-> 1],
        VoltScale * k_reversal(EXAMPLE_CYTOPLASM, INTERSTICIAL_FLUID, BODY_TEMPERATURE),
        VoltScale * na_reversal(EXAMPLE_CYTOPLASM, INTERSTICIAL_FLUID, BODY_TEMPERATURE),
        VoltScale * cl_reversal(EXAMPLE_CYTOPLASM, INTERSTICIAL_FLUID, BODY_TEMPERATURE),
        VoltScale * ca_reversal(EXAMPLE_CYTOPLASM, INTERSTICIAL_FLUID, BODY_TEMPERATURE),
        potential)

\* C24: the conductance coefficient of a channel is the product of what its
\* activation and its inactivation gate contribute, 1.0 for an absent gate,
\* so that a channel with neither gate has the coefficient 1.0 in every
\* state; and a channel for a single ion that conducts at all carries no
\* current exactly at that ion's reversal potential.  (A magnitude below the
\* resolution of the model is 0 here where the f32 is small and positive:
\* the second part is read for coefficients above 0.)
C24_CoefficientIsProductOfGates ==
    \A i \in DOMAIN cell.membrane.membrane_channels :
        LET mc == cell.membrane.membrane_channels[i]
            coefficient == conductance_coefficient(mc.channel)
        IN  /\ coefficient
                 = Quot(Contribution(mc.channel.activation)
                          * Contribution(mc.channel.inactivation), MagScale)
            /\ (mc.channel.activation = NoGate /\ mc.channel.inactivation = NoGate)
                 => coefficient = MagScale
            /\ ( /\ SingleIon(mc.channel.ion_selectivity)
                 /\ coefficient > 0
                 /\ mc.siemens_per_square_cm > 0
                 /\ ~ degenerate_solution(cell.intracellular_solution) )
                 => \A potential \in Probes :
                       (probe_current(mc, potential) = 0)
                         <=> (potential = ReversalOf(mc.channel.ion_selectivity))

\* C24, its case: the stepped giant squid axon, whose sodium channel has both
\* gates partly open and away from where they were built, beside the leak
\* channel without gates
C24_Witness ==
    /\ cellBuilt = giant_squid_axon
    /\ cell.finite
    /\ LET na == cell.membrane.membrane_channels[2].channel
           built == cellBuilt.membrane.membrane_channels[2].channel
       IN  /\ na.activation[1].magnitude # built.activation[1].magnitude
           /\ na.inactivation[1].magnitude # built.inactivation[1].magnitude
           /\ na.activation[1].magnitude \in 1..(MagScale - 1)
           /\ na.inactivation[1].magnitude \in 1..(MagScale - 1)
           /\ conductance_coefficient(na) \in 1..(MagScale - 1)
    /\ conductance_coefficient(cell.membrane.membrane_channels[3].channel) = MagScale

----------------------------------------------------------------------------
(* Claims about construction *)

\* C13: a gate built by ChannelBuilder::build at a voltage V0 has the
\* magnitude m_inf(V0), and any number of steps at the same voltage V0 leave
\* that magnitude where it is: there is no transient after construction.
C13_BuiltAtSteadyState ==
    gateHistory \in {"built", "held"} =>
        /\ gate.finite
        /\ gate.magnitude = steady_state(gate.parameters.steady_state_magnitude, gateV)

\* C13, its case: a partly open gate with a finite time constant that has
\* been stepped at the voltage it was built at
C13_Witness ==
    /\ gateHistory = "held"
    /\ gate.parameters.time_constant.law # "Instantaneous"
    /\ 0 < gate.magnitude /\ gate.magnitude < MagScale

\* the four fractions are finite, each within [0, 1], and sum to 1.0 up to the
\* rounding of the four stored quotients (each less than one unit)
SumsToOne(ion_selectivity) ==
    /\ ion_selectivity.finite
    /\ \A fraction \in { ion_selectivity.na, ion_selectivity.k,
                         ion_selectivity.ca, ion_selectivity.cl } :
          0 <= fraction /\ fraction <= SelScale
    /\ LET sum == ion_selectivity.na + ion_selectivity.k
                    + ion_selectivity.ca + ion_selectivity.cl
       IN  SelScale - 3 <= sum /\ sum <= SelScale

\* C14: every channel that ChannelBuilder::build produced from non-negative
\* selectivity weights has four fractions within [0, 1] that sum to 1.0, at
\* construction and after any sequence of steps.
C14_SelectivitySumsToOne ==
    \A i \in DOMAIN cell.membrane.membrane_channels :
        SumsToOne(cell.membrane.membrane_channels[i].channel.ion_selectivity)

----------------------------------------------------------------------------
(* Claims about degenerate parameters and diverged voltages *)

\* C19: degenerate parameters are reported as errors and produce no value: no
\* channel carries a selectivity that normalize made of weights summing to
\* zero (NaN fractions), and no segment whose solution has a concentration
\* that is not positive has integrated the infinite or NaN reversal potential
\* into its membrane potential.
C19_DegenerateParametersAreErrors ==
    /\ \A i \in DOMAIN cell.membrane.membrane_channels :
          cell.membrane.membrane_channels[i].channel.ion_selectivity.finite
    /\ degenerate_solution(cell.intracellular_solution) => cell.finite

\* C20: a step never stores a non-finite membrane potential: when the
\* integration of a finite segment gives a NaN or infinite voltage the step
\* reports the failure instead, so the stored potential stays finite from one
\* step to the next.
C20_DivergedVoltageNeverStored ==
    [][ cell.finite => cell'.finite ]_vars

----------------------------------------------------------------------------
(* Claims about the runner *)

\* the tasks inside a block that holds the guard
Holders ==
    (IF runPc = "batch" THEN {"run"} ELSE {})
      \cup (IF watchPc = "display" THEN {"watch"} ELSE {})
      \cup (IF handlerPc = "write" THEN {"handler"} ELSE {})

\* C18: run, watch and the command handler touch the State only while they
\* hold its mutex, and run holds it for a whole batch: at most one task is
\* inside its block and it is the owner of the mutex; no display and no
\* SetInterval or SetTimeCoefficient falls inside a batch; inside a batch the
\* interval and the time coefficient are those of its start, every step has
\* been given that interval, and the time has grown by that interval per
\* step, so by simulation_batch_size * interval when the batch ends.
C18_BatchHoldsTheMutex ==
    /\ Holders = IF mutex = "free" THEN {} ELSE {mutex}
    /\ ~ interleaved
    /\ runPc \in {"batch", "sleep"} =>
          /\ \A k \in DOMAIN batch.used : batch.used[k] = batch.simulation_interval
          /\ state.time = batch.time + Len(batch.used) * batch.simulation_interval
    /\ runPc = "batch" =>
          /\ state.simulation_interval = batch.simulation_interval
          /\ state.time_coefficient = batch.time_coefficient
    /\ runPc = "sleep" =>
          state.time = batch.time + state.simulation_batch_size * batch.simulation_interval

\* C18, its case: a whole batch has run with an interval a command has set,
\* while a display is waiting for the mutex and a command is waiting too
C18_Witness ==
    /\ runPc = "batch"
    /\ Len(batch.used) = state.simulation_batch_size
    /\ batch.simulation_interval # initial_state.simulation_interval
    /\ watchPc = "lock"
    /\ handlerPc = "lock"
    /\ command.tag = "SetInterval"
    /\ displayed > 0

----------------------------------------------------------------------------
(* Claims about the ring buffer *)

\* the last count elements of a sequence
LastOf(sequence, count) ==
    SubSeq(sequence, Len(sequence) - count + 1, Len(sequence))

\* the smaller of two numbers
Min(a, b) == IF a <= b THEN a ELSE b

\* C21: for a RingBuffer of capacity c >= 1 after n writes, contents() is the
\* last min(n, c) written values, oldest first: older values and the default
\* fill value do not appear.
C21_ContentsAreTheLastWrites ==
    Len(ring_buffer.inner) >= 1 =>
        RingBuffer_contents(ring_buffer)
          = LastOf(writes, Min(Len(writes), Len(ring_buffer.inner)))

\* C21, its case: more writes than the capacity of 3, the cursor inside the
\* buffer, so that the contents are in two pieces
C21_Witness ==
    /\ Len(ring_buffer.inner) = 3
    /\ Len(writes) > 3
    /\ ring_buffer.write_cursor > 0
    /\ RingBuffer_contents(ring_buffer) = LastOf(writes, 3)
    /\ writes[Len(writes)] # writes[Len(writes) - 1]

\* C29: for a RingBuffer of capacity c after n writes, len = min(n, c),
\* write_cursor is n modulo c and below c, and no write has indexed out of
\* bounds, whatever c is, 0 included.
C29_CursorAndLenWithinCapacity ==
    /\ ~ ring_panicked
    /\ ring_buffer.len = Min(Len(writes), Len(ring_buffer.inner))
    /\ Len(ring_buffer.inner) > 0 =>
          /\ ring_buffer.write_cursor < Len(ring_buffer.inner)
          /\ ring_buffer.write_cursor = Len(writes) % Len(ring_buffer.inner)

----------------------------------------------------------------------------
(* Claims about simplify *)

\* the ids of a sequence of segments
IdsOf(entries) == { entries[i].id : i \in DOMAIN entries }

\* the proper ancestors of an id among the given segments: its parent, the
\* parent's parent, and so on
RECURSIVE AncestorsWithin(_, _, _)
AncestorsWithin(entries, ids, hops) ==
    IF hops = 0 THEN ids
    ELSE AncestorsWithin(entries,
             ids \cup { parent_of(entries, a) :
                          a \in { b \in ids : has_entry(entries, b) } },
             hops - 1)

Ancestors(entries, id) ==
    AncestorsWithin(entries, {parent_of(entries, id)}, Len(entries))

\* the segments simplify is to keep
KeptIds(entries) ==
    { id \in IdsOf(entries) :
        \/ id = 1
        \/ Cardinality({ i \in DOMAIN entries : entries[i].parent = id }) # 1
        \/ id % 10 = 0 }

\* C22: when simplify returns, segment 1, every segment with no child or with
\* two or more children and every segment whose id is a multiple of 10
\* remain, and the parent of every remaining segment is its nearest kept
\* proper ancestor in the neuron as given (a kept ancestor with no kept
\* ancestor of the segment below it), or -1 when it has none.
C22_SimplifyKeepsNearestAncestor ==
    swc_outcome = "simplified" =>
        /\ KeptIds(swc_loaded) \subseteq IdsOf(swc)
        /\ \A i \in DOMAIN swc :
              LET kept_ancestors ==
                      Ancestors(swc_loaded, swc[i].id) \cap KeptIds(swc_loaded)
              IN  IF kept_ancestors = {}
                  THEN swc[i].parent = -1
                  ELSE /\ swc[i].parent \in kept_ancestors
                       /\ swc[i].parent \in IdsOf(swc)
                       /\ \A a \in kept_ancestors \ {swc[i].parent} :
                             a \in Ancestors(swc_loaded, swc[i].parent)

\* C22, its case: a neuron of five segments of which two in a row were
\* dropped, and a remaining segment that hangs on its great-grandparent
C22_Witness ==
    /\ swc_outcome = "simplified"
    /\ Len(swc_loaded) = 5
    /\ Len(swc) = 3
    /\ \E i \in DOMAIN swc :
          /\ swc[i].parent # -1
          /\ swc[i].parent # parent_of(swc_loaded, swc[i].id)
          /\ parent_of(swc_loaded, swc[i].id) \notin IdsOf(swc)
          /\ parent_of(swc_loaded, parent_of(swc_loaded, swc[i].id)) \notin IdsOf(swc)

----------------------------------------------------------------------------
(* Claims about stimulation *)

\* the times at which the current of a stimulator is examined
TimeHorizon == 9

\* an envelope with period > 0 and onset < offset <= period
WellFormed(envelope) ==
    /\ envelope.period > 0
    /\ envelope.onset < envelope.offset
    /\ envelope.offset <= envelope.period

\* the current of a square wave as the envelope defines it
EnvelopeCurrent(stimulator, t) ==
    IF /\ stimulator.envelope.onset <= t % stimulator.envelope.period
       /\ t % stimulator.envelope.period <= stimulator.envelope.offset
    THEN stimulator.current_shape.on_current
    ELSE stimulator.current_shape.off_current

\* C26: the current of a square-wave stimulator with period > 0 and
\* onset < offset <= period is on_current exactly when onset <= (t mod
\* period) <= offset and off_current otherwise, it has the period of the
\* envelope, and the segment phase of a tick adds the current of the
\* timestamp the tick started with.
C26_StimulatorIsPeriodicAndGated ==
    /\ \A e \in DOMAIN segments :
          (segments[e].stimulator # << >> /\ WellFormed(segments[e].stimulator[1].envelope)) =>
              \A t \in 0..TimeHorizon :
                  LET stimulator == segments[e].stimulator[1]
                  IN  /\ Stimulator_current(stimulator, t) = EnvelopeCurrent(stimulator, t)
                      /\ Stimulator_current(stimulator, t + stimulator.envelope.period)
                            = Stimulator_current(stimulator, t)
    /\ pc = "junctions" =>
          \A e \in DOMAIN segments :
              LET start == tick_start.segments[e]
                  injected ==
                      start.input_current
                        + (IF start.stimulator = << >> THEN 0
                           ELSE EnvelopeCurrent(start.stimulator[1], tick_start.timestamp))
              IN  (start.stimulator = << >> \/ WellFormed(start.stimulator[1].envelope)) =>
                      segments[e].membrane_voltage =
                          channel_voltage(start, default_env, simulation_step)
                            + Quot(injected * surface_area(start.geometry) * simulation_step,
                                   start.membrane.capacitance * surface_area(start.geometry))

\* C26, its case: the segment phase of a later tick has run on a segment
\* whose stimulator has a well-formed envelope and gives another current at
\* the end of the tick than at its start
C26_Witness ==
    /\ pc = "junctions"
    /\ tick_start.timestamp > 0
    /\ \E e \in DOMAIN segments :
          /\ tick_start.segments[e].stimulator # << >>
          /\ WellFormed(tick_start.segments[e].stimulator[1].envelope)
          /\ Stimulator_current(tick_start.segments[e].stimulator[1], tick_start.timestamp)
               # Stimulator_current(tick_start.segments[e].stimulator[1],
                                    tick_start.timestamp + simulation_step)

\* C27: after any sequence of add_stimulation and delete_stimulations clicks
\* every Stimulation marker points to a segment that carries a Stimulator,
\* and a segment carries a Stimulator only while a marker points to it.
C27_MarkersAndStimulatorsAgree ==
    /\ \A i \in DOMAIN stimulations :
          /\ stimulations[i].stimulation_segment \in DOMAIN segments
          /\ segments[stimulations[i].stimulation_segment].stimulator # << >>
    /\ \A e \in DOMAIN segments :
          segments[e].stimulator # << >> =>
              \E i \in DOMAIN stimulations : stimulations[i].stimulation_segment = e

----------------------------------------------------------------------------
(* Claims about serialization *)

\* the serialized form of a gate that may be absent
SerializedGate(maybe_gate) ==
    IF maybe_gate = NoGate THEN NoGate ELSE << GateState_serialize(maybe_gate[1]) >>

\* C28: Channel::serialize keeps the two gates apart: the activation field
\* of the serialized channel holds the parameters and the magnitude of the
\* activation gate and the inactivation field those of the inactivation gate,
\* None for a channel without one.
C28_SerializeKeepsBothGates ==
    \A i \in DOMAIN cell.membrane.membrane_channels :
        LET channel == cell.membrane.membrane_channels[i].channel
        IN  /\ Channel_serialize(channel).activation = SerializedGate(channel.activation)
            /\ Channel_serialize(channel).inactivation = SerializedGate(channel.inactivation)

----------------------------------------------------------------------------
(* Claims about the oscilloscope *)

\* C30: after any sequence of step_oscilloscope_system calls write_offset is
\* within [0, N_SAMPLES), and Oscilloscope::plot can be called in every such
\* state, write_offset = 0 included, without an unsigned underflow in
\* write_offset - 1.
C30_OffsetInRangeAndPlotSafe ==
    /\ oscilloscope.write_offset \in 0..(N_SAMPLES - 1)
    /\ plot_outcome \in {"none", "plotted"}

====
